---- MODULE Spec2Model ----
(***************************************************************************)
(* A model of the transaction simulation core of tycho-simulation          *)
(* (protosim): the EVM result projector (interpret_evm_result),            *)
(* the EVM and Starknet SimulationEngine::simulate handlers, the remote    *)
(* reader EthRpcDB and the layered simulation database they read through.  *)
(***************************************************************************)
EXTENDS Integers, Sequences, FiniteSets, TLC

(***************************************************************************)
(* Bounds of the model.                                                    *)
(***************************************************************************)
\* gas values handed to the projector range over 0..MaxGas (plus the values of the tests)
MaxGas == 0

\* blocks 1..MaxBlock exist when an engine is constructed; simulate's block_number ranges over them
MaxBlock == 2

\* the remote chain grows by at most MaxNewBlocks blocks
MaxNewBlocks == 1

(***************************************************************************)
(* Option<T>, as Rust's None / Some(v).                                    *)
(***************************************************************************)
None == [some |-> FALSE]

Some(x) == [some |-> TRUE, v |-> x]

(***************************************************************************)
(* u64: four 16-bit limbs, least significant first, so that the width of   *)
(* the type (2^64) is kept without leaving TLC's integers.                 *)
(***************************************************************************)
LimbBase == 2 ^ 16

U64Of(n) == << n % LimbBase, (n \div LimbBase) % LimbBase, 0, 0 >>

U64ToNat(u) == u[1] + LimbBase * u[2]

U64IsSmall(u) == u[3] = 0 /\ u[4] = 0 /\ u[2] < 2 ^ 14

\* a < b on u64
U64Less(a, b) ==
    \E i \in 1..4 : a[i] < b[i] /\ \A j \in (i + 1)..4 : a[j] = b[j]

RECURSIVE SubLimbs(_, _, _, _)
SubLimbs(a, b, i, borrow) ==
    IF i > 4 THEN << >>
    ELSE LET d == a[i] - b[i] - borrow
         IN  << IF d < 0 THEN d + LimbBase ELSE d >>
                 \o SubLimbs(a, b, i + 1, IF d < 0 THEN 1 ELSE 0)

\* u64::wrapping_sub: a - b modulo 2^64
U64WrappingSub(a, b) == SubLimbs(a, b, 1, 0)

(***************************************************************************)
(* Values of the projector's inputs.                                       *)
(***************************************************************************)
\* 20-byte addresses (B160 and H160 hold the same 20 bytes), as numbers;
\* 0 is Address::zero()
TouchedAddrs == {0, 7}

\* storage slot indexes and slot / balance values (U256), as numbers
SlotIndexes == {31, 32}

SlotValues == {4, 5}

Balances == {1, 2}

GasValues == {U64Of(n) : n \in (0..MaxGas) \cup {10, 100}}

\* "output" as bytes, and the empty output
OutputBytes == { << >>, <<111, 117, 116, 112, 117, 116>> }

\* revm Output: Call(bytes) | Create(bytes, Option<address>)
Outputs ==
    { [kind |-> "Call", data |-> <<111, 117, 116, 112, 117, 116>>, address |-> None],
      [kind |-> "Create", data |-> << >>, address |-> Some(7)] }

\* revm StorageSlot
StorageSlots == [previous_or_original_value : SlotValues, present_value : SlotValues]

PartialFunctions(D, R) == UNION {[S -> R] : S \in SUBSET D}

\* revm Account (info.balance and storage are what the projector reads)
Accounts ==
    [info : [balance : Balances], storage : PartialFunctions(SlotIndexes, StorageSlots)]

\* revm State: the touched accounts
States == PartialFunctions(TouchedAddrs, Accounts)

\* revm Halt reasons and InvalidTransaction errors, by their variants
HaltReasons ==
    { [variant |-> "OutOfGas", arg |-> Some("BasicOutOfGas")],
      [variant |-> "OutOfGas", arg |-> Some("MemoryLimit")],
      [variant |-> "OpcodeNotFound", arg |-> None],
      [variant |-> "StackOverflow", arg |-> None] }

InvalidTransactions == {"GasMaxFeeGreaterThanPriorityFee", "CallerGasLimitMoreThanBlock"}

\* ProviderError values, by their Debug rendering
DbErrors == {"CustomError(\"boo\")", "UnsupportedRPC"}

\* revm EVMResult<DBError> = Result<ResultAndState, EVMError<DBError>>
EVMResults ==
    [tag : {"Ok"},
     result : [kind : {"Success"}, gas_used : GasValues, gas_refunded : GasValues,
               output : Outputs],
     state : States]
    \cup
    [tag : {"Ok"},
     result : [kind : {"Revert"}, gas_used : GasValues, output : OutputBytes],
     state : {<< >>}]
    \cup
    [tag : {"Ok"},
     result : [kind : {"Halt"}, gas_used : GasValues, reason : HaltReasons],
     state : {<< >>}]
    \cup
    [tag : {"Err"}, error : [kind : {"Transaction"}, invalid_tx : InvalidTransactions]]
    \cup
    [tag : {"Err"}, error : [kind : {"PrevrandaoNotSet"}]]
    \cup
    [tag : {"Err"}, error : [kind : {"Database"}, db_error : DbErrors]]

(***************************************************************************)
(* Formatting: hex::encode and the Debug renderings.                       *)
(***************************************************************************)
HexDigits == <<"0", "1", "2", "3", "4", "5", "6", "7", "8", "9", "a", "b", "c", "d", "e", "f">>

\* hex with upper-case digits
HexEncodeUpper(bytes) ==
    IF bytes = << >> THEN ""
    ELSE LET upper == <<"0", "1", "2", "3", "4", "5", "6", "7", "8", "9",
                        "A", "B", "C", "D", "E", "F">>
             RECURSIVE enc(_)
             enc(b) == IF b = << >> THEN ""
                       ELSE upper[(Head(b) \div 16) + 1] \o upper[(Head(b) % 16) + 1]
                                \o enc(Tail(b))
         IN  enc(bytes)

RECURSIVE HexEncode(_)
HexEncode(bytes) ==
    IF bytes = << >> THEN ""
    ELSE HexDigits[(Head(bytes) \div 16) + 1] \o HexDigits[(Head(bytes) % 16) + 1]
             \o HexEncode(Tail(bytes))

\* the variant's name without its argument
DebugHaltVariantOnly(reason) == reason.variant

DebugHalt(reason) ==
    IF reason.arg.some THEN reason.variant \o "(" \o reason.arg.v \o ")"
    ELSE reason.variant

(***************************************************************************)
(* State.                                                                  *)
(***************************************************************************)
VARIABLES
    evm_result,       \* the EVMResult handed to interpret_evm_result
    projected,        \* what interpret_evm_result returned for it, None before the call
    overflow_checks,  \* build profile: TRUE when arithmetic overflow panics (debug)
    vm,               \* which SimulationEngine this is: "evm" or "starknet"
    head,             \* height of the remote chain's latest block
    db,               \* EVM: the engine's SimulationDB (self.state)
    sn_state,         \* Starknet: the engine's CachedState (self.state)
    fetches,          \* per key, the remote fetches since the engine's cache was created or invalidated
    call,             \* the last simulate call: its parameters, remote reads, VM reads and outcome
    sim_params,       \* the SimulationParameters of the last conversion to the VM's types
    tx_env,           \* the VM environment or entry point simulate built from them, None before
    built,            \* what the factory returned when the engine was constructed, None before
    run,              \* the simulate call in flight: its phase, the VM's run and what it returned
    ingest,           \* the last update_engine call: its arguments, what it submitted and returned
    engines           \* two engines over one remote reader: each one's database and call in flight

projector_vars == << evm_result, projected >>

engine_vars == << vm, head, db, sn_state, fetches, call >>

conversion_vars == << sim_params, tx_env >>

lifecycle_vars == << built, run, ingest, engines >>

vars ==
    << evm_result, projected, overflow_checks, vm, head, db, sn_state, fetches, call,
       sim_params, tx_env, built, run, ingest, engines >>

\* no call in flight and none made yet
NoRun ==
    [phase |-> "Idle", n |-> 0, params |-> << >>, m |-> << >>, code |-> << >>,
     trace |-> << >>, pins |-> << >>, outcome |-> [tag |-> "None"], previous |-> None]

\* update_engine not called yet
NoIngest ==
    [called |-> FALSE, block |-> 0, vm_storage |-> None, account_updates |-> << >>,
     submitted |-> << >>, returned |-> << >>, before |-> << >>, after |-> << >>]

(***************************************************************************)
(* interpret_evm_success / interpret_evm_result.                           *)
(***************************************************************************)
\* Output::into_data
OutputIntoData(output) == output.data

\* every reported slot taken as changed
IsChangedAlways(slot) == TRUE

\* StorageSlot::is_changed
IsChanged(slot) == slot.previous_or_original_value /= slot.present_value

\* the changed slots, without the check that there is one
StorageUpdateKeepingEmpty(storage) ==
    IF DOMAIN storage = {} THEN None
    ELSE LET changed == {index \in DOMAIN storage : IsChanged(storage[index])}
         IN  Some([index \in changed |-> storage[index].present_value])

\* the storage field of one StateUpdate
StorageUpdate(storage) ==
    IF DOMAIN storage = {} THEN None
    ELSE LET changed == {index \in DOMAIN storage : IsChanged(storage[index])}
             slot_updates == [index \in changed |-> storage[index].present_value]
         IN  IF changed = {} THEN None ELSE Some(slot_updates)

\* only the accounts that reported storage get a record
AccountUpdatesWithStorageOnly(state) ==
    [address \in {a \in DOMAIN state : DOMAIN state[a].storage /= {}} |->
        [balance |-> Some(state[address].info.balance),
         storage |-> StorageUpdate(state[address].storage)]]

\* the balance reported only next to a storage change
AccountUpdatesBalanceWithStorage(state) ==
    [address \in DOMAIN state |->
        [balance |-> IF StorageUpdate(state[address].storage).some
                     THEN Some(state[address].info.balance) ELSE None,
         storage |-> StorageUpdate(state[address].storage)]]

AccountUpdates(state) ==
    [address \in DOMAIN state |->
        [balance |-> Some(state[address].info.balance),
         storage |-> StorageUpdate(state[address].storage)]]

\* the refund left out
GasUsedIgnoringRefund(gas_used, gas_refunded, checks) ==
    [panic |-> FALSE, value |-> gas_used]

\* the subtraction guarded against a refund above the gas used
GasUsedSaturatingSub(gas_used, gas_refunded, checks) ==
    [panic |-> FALSE,
     value |-> IF U64Less(gas_used, gas_refunded) THEN U64Of(0)
               ELSE U64WrappingSub(gas_used, gas_refunded)]

\* gas_used - gas_refunded on u64: a panic when overflow checks are on, else it wraps
GasUsedMinusRefunded(gas_used, gas_refunded, checks) ==
    IF U64Less(gas_used, gas_refunded) /\ checks
    THEN [panic |-> TRUE, value |-> U64Of(0)]
    ELSE [panic |-> FALSE, value |-> U64WrappingSub(gas_used, gas_refunded)]

interpret_evm_success(gas_used, gas_refunded, output, state, checks) ==
    LET gas == GasUsedMinusRefunded(gas_used, gas_refunded, checks)
    IN  IF gas.panic
        THEN [tag |-> "Panic", message |-> "attempt to subtract with overflow"]
        ELSE [tag |-> "Ok",
              value |-> [result |-> OutputIntoData(output),
                         state_updates |-> AccountUpdates(state),
                         gas_used |-> gas.value]]

TransactionError(data, gas_used) ==
    [tag |-> "Err", error |-> [kind |-> "TransactionError", data |-> data, gas_used |-> gas_used]]

StorageError(msg) ==
    [tag |-> "Err", error |-> [kind |-> "StorageError", data |-> msg, gas_used |-> None]]

\* the Ok arm: Success, Revert, Halt
InterpretExecutionResult(result, state, checks) ==
    CASE result.kind = "Success" ->
            interpret_evm_success(result.gas_used, result.gas_refunded, result.output,
                                  state, checks)
      [] result.kind = "Revert" ->
            TransactionError("0x" \o HexEncode(result.output), Some(result.gas_used))
      [] result.kind = "Halt" ->
            TransactionError(DebugHalt(result.reason), Some(result.gas_used))

\* the pre-flight errors reported with a gas figure
EvmErrorWithZeroGas(evm_error) ==
    CASE evm_error.kind = "Transaction" ->
            TransactionError("EVM error: " \o evm_error.invalid_tx, Some(U64Of(0)))
      [] evm_error.kind = "PrevrandaoNotSet" ->
            TransactionError("EVM error: PrevrandaoNotSet", Some(U64Of(0)))
      [] evm_error.kind = "Database" ->
            StorageError("Storage error: " \o evm_error.db_error)

\* the database error reported like the pre-flight errors
DatabaseAsTransactionError(evm_error) ==
    CASE evm_error.kind = "Transaction" ->
            TransactionError("EVM error: " \o evm_error.invalid_tx, None)
      [] evm_error.kind = "PrevrandaoNotSet" ->
            TransactionError("EVM error: PrevrandaoNotSet", None)
      [] evm_error.kind = "Database" ->
            TransactionError("EVM error: " \o evm_error.db_error, None)

\* the Err arm: Transaction, PrevrandaoNotSet, Database
InterpretEvmError(evm_error) ==
    CASE evm_error.kind = "Transaction" ->
            TransactionError("EVM error: " \o evm_error.invalid_tx, None)
      [] evm_error.kind = "PrevrandaoNotSet" ->
            TransactionError("EVM error: PrevrandaoNotSet", None)
      [] evm_error.kind = "Database" ->
            StorageError("Storage error: " \o evm_error.db_error)

\* a Revert projected as if it were a Success
RevertAsSuccess(r, checks) ==
    IF r.tag = "Ok" /\ r.result.kind = "Revert"
    THEN [tag |-> "Ok",
          value |-> [result |-> r.result.output,
                     state_updates |-> AccountUpdates(r.state),
                     gas_used |-> r.result.gas_used]]
    ELSE IF r.tag = "Ok" THEN InterpretExecutionResult(r.result, r.state, checks)
         ELSE InterpretEvmError(r.error)

interpret_evm_result(r, checks) ==
    IF r.tag = "Ok" THEN InterpretExecutionResult(r.result, r.state, checks)
    ELSE InterpretEvmError(r.error)

(***************************************************************************)
(* The remote chain.  A block's state never changes once the block exists; *)
(* a request without a block tag (None) is served at the latest block.     *)
(***************************************************************************)
Caller == 1

\* the contract addresses simulate is pointed at: 7 is deployed, 9 is not
Targets == {7, 9}

Deployed == {7}

RemoteStorage(h, a, s) == (h + a + s + 2) % 3

\* balances stand still on this chain; storage moves with every block
RemoteBalance(h, a) == a % 2

\* nonces stand still too; the code at an address is fixed when it is deployed
RemoteNonce(h, a) == 0

RemoteCode(h, a) == IF a \in Deployed THEN << 96, a >> ELSE << >>

\* keccak256 of a byte string, kept symbolic; KECCAK_EMPTY is the hash of no bytes
Keccak(bytes) == << "keccak256", bytes >>

KECCAK_EMPTY == Keccak(<< >>)

\* Bytecode::new_raw(bytes): the bytes as fetched, with their hash
BytecodeNewRaw(bytes) ==
    [bytecode |-> bytes, hash |-> Keccak(bytes), state |-> [kind |-> "Raw", len |-> Len(bytes)]]

\* to_analysed(bytecode): the jump table is computed over the same bytes, whose
\* length is recorded; the hash stays the hash of the bytes as they came
to_analysed(bytecode) ==
    IF bytecode.state.kind = "Analysed" THEN bytecode
    ELSE [bytecode EXCEPT !.state = [kind |-> "Analysed", len |-> Len(bytecode.bytecode)]]

\* AccountInfo::new(balance, nonce, code): the code is kept and its hash taken
AccountInfoNew(balance, nonce, code) ==
    [balance |-> balance, nonce |-> nonce, code_hash |-> code.hash, code |-> Some(code)]

\* a request for an account's class hash (Starknet): an error when nothing is deployed there
RemoteClassHashAt(h, a) == IF a \in Deployed THEN [ok |-> TRUE, v |-> 100 + a] ELSE [ok |-> FALSE, v |-> 0]

\* one request to the remote node: its kind, its arguments, the block tag it
\* carried and the height it was served at
Request(kind, a, slot, tag, height) ==
    [kind |-> kind, address |-> a, slot |-> slot, tag |-> tag, height |-> height]

(***************************************************************************)
(* EthRpcDB: the remote reader of the EVM database.  Every request carries *)
(* None as its block, so the node serves it at its latest block.           *)
(***************************************************************************)
\* the block argument EthRpcDB passes: get_balance(.., None), get_storage_at(.., None)
EthRpcBlockTag(pin) == None

\* basic that leaves the code to a later code_by_hash
EthRpcBasicWithoutCode(latest, pin, a) ==
    [info |-> [AccountInfoNew(RemoteBalance(latest, a), RemoteNonce(latest, a),
                              to_analysed(BytecodeNewRaw(RemoteCode(latest, a))))
                  EXCEPT !.code = None],
     requests |-> << Request("balance", a, None, EthRpcBlockTag(pin), latest),
                     Request("nonce", a, None, EthRpcBlockTag(pin), latest) >>]

\* basic that hands the code over as it was fetched, not analysed
EthRpcBasicRawCode(latest, pin, a) ==
    [info |-> AccountInfoNew(RemoteBalance(latest, a), RemoteNonce(latest, a),
                             BytecodeNewRaw(RemoteCode(latest, a))),
     requests |-> << Request("balance", a, None, EthRpcBlockTag(pin), latest),
                     Request("nonce", a, None, EthRpcBlockTag(pin), latest),
                     Request("code", a, None, EthRpcBlockTag(pin), latest) >>]

\* EthRpcDB::basic: balance, transaction count and code as one joined batch
EthRpcBasic(latest, pin, a) ==
    [info |-> AccountInfoNew(RemoteBalance(latest, a), RemoteNonce(latest, a),
                             to_analysed(BytecodeNewRaw(RemoteCode(latest, a)))),
     requests |-> << Request("balance", a, None, EthRpcBlockTag(pin), latest),
                     Request("nonce", a, None, EthRpcBlockTag(pin), latest),
                     Request("code", a, None, EthRpcBlockTag(pin), latest) >>]

\* EthRpcDB::storage
EthRpcStorage(latest, pin, a, index) ==
    [value |-> RemoteStorage(latest, a, index),
     requests |-> << Request("storage", a, Some(index), EthRpcBlockTag(pin), latest) >>]

(***************************************************************************)
(* The VM run of one call.  m is the state of the run: the database it     *)
(* reads through, the VM's scratch state, and the logs of what it did.     *)
(***************************************************************************)
\* the node's latest block when the run issues its next request: a block
\* arrives after m.tick.v requests of the run, if m.tick is Some
LatestNow(m) ==
    IF m.tick.some /\ Len(m.rpc) >= m.tick.v THEN m.head0 + 1 ELSE m.head0

\* a failed request unwrapped: unwrap_or_else(|e| panic!(..)) in basic, unwrap()
\* in storage; the run ends there
EthRpcPanic(m, kind, a, slot) ==
    [m EXCEPT !.status = "panicked",
              !.failed = Some(Request(kind, a, slot, EthRpcBlockTag(m.db.pin), LatestNow(m))),
              !.panic = IF kind = "storage"
                        THEN "called Result::unwrap() on an Err value"
                        ELSE "ethers get " \o kind \o " error"]

\* the future run on the internal executor whatever the reader was given
BlockOnInternalExecutor(runtime, f) ==
    [output |-> f, executor |-> "futures::executor::block_on"]

\* EthRpcDB::block_on: the future is run to its output on the runtime the reader
\* was given, else on the executor of the futures crate
block_on(runtime, f) ==
    [output |-> f,
     executor |-> IF runtime.some THEN "runtime.block_on" ELSE "futures::executor::block_on"]

\* one resolved future of the reader: where it ran and the requests it made
Resolved(blocked) == [executor |-> blocked.executor, requests |-> blocked.output.requests]

\* SimulationDB::basic: the seeded or cached account, else fetched and cached
DbBasic(m, a) ==
    IF m.status /= "running" \/ a \in DOMAIN m.db.accounts THEN m
    ELSE IF m.fail.some /\ m.fail.v \in {"balance", "nonce", "code"}
    THEN EthRpcPanic(m, m.fail.v, a, None)
    ELSE LET blocked == block_on(m.runtime, EthRpcBasic(LatestNow(m), m.db.pin, a))
             got == blocked.output
         IN  [m EXCEPT !.db.accounts =
                           (a :> [mocked |-> FALSE, info |-> got.info, storage |-> << >>]) @@ @,
                       !.rpc = @ \o got.requests,
                       !.resolved = @ \o << Resolved(blocked) >>]

\* EthRpcDB::code_by_hash, and the database's code_by_hash over it: a panic
CodeByHash(m, code_hash) ==
    [m EXCEPT !.status = "panicked",
              !.code_by_hash = @ \o << code_hash >>,
              !.panic = "Should not be called. Code is already loaded"]

\* SimulationDB::storage: the account's slot, zero for a mocked account, else
\* fetched and cached
DbStorage(m, a, index) ==
    LET account == m.db.accounts[a]
    IN  IF index \in DOMAIN account.storage
        THEN [value |-> account.storage[index], m |-> m]
        ELSE IF account.mocked
        THEN [value |-> 0, m |-> m]
        ELSE IF m.fail = Some("storage")
        THEN [value |-> 0, m |-> EthRpcPanic(m, "storage", a, Some(index))]
        ELSE LET blocked == block_on(m.runtime, EthRpcStorage(LatestNow(m), m.db.pin, a, index))
                 got == blocked.output
             IN  [value |-> got.value,
                  m |-> [m EXCEPT !.db.accounts[a].storage = (index :> got.value) @@ @,
                                  !.rpc = @ \o got.requests,
                                  !.resolved = @ \o << Resolved(blocked) >>]]

\* OverriddenSimulationDB::storage with the call's overrides left out
OverriddenStorageIgnored(m, overrides, a, index) == DbStorage(m, a, index)

\* OverriddenSimulationDB::storage: the call's overrides first, else the inner database
OverriddenStorage(m, overrides, a, index) ==
    IF a \in DOMAIN overrides /\ index \in DOMAIN overrides[a]
    THEN [value |-> overrides[a][index], m |-> m]
    ELSE DbStorage(m, a, index)

\* revm loads an account once per transaction
EvmLoadAccount(m, a) ==
    IF m.status /= "running" \/ a \in m.loaded THEN m
    ELSE LET m1 == DbBasic(m, a)
         IN  IF m1.status /= "running" THEN m1 ELSE [m1 EXCEPT !.loaded = @ \cup {a}]

\* revm loads the code of the account it is about to run: the code that came
\* with the account, no code for KECCAK_EMPTY, else code_by_hash
EvmLoadCode(m, a) ==
    IF m.status /= "running" THEN m
    ELSE LET info == m.db.accounts[a].info
         IN  IF info.code.some \/ info.code_hash = KECCAK_EMPTY THEN m
             ELSE CodeByHash(m, info.code_hash)

\* revm's journal: the slot as loaded (once per transaction) and as last written
EvmLoadSlot(m, overrides, a, index) ==
    IF << a, index >> \in DOMAIN m.journal THEN m
    ELSE LET got == OverriddenStorage(m, overrides, a, index)
         IN  IF got.m.status /= "running" THEN got.m
             ELSE
             [got.m EXCEPT !.journal =
                  (<< a, index >> :> [previous_or_original_value |-> got.value,
                                      present_value |-> got.value]) @@ @]

(***************************************************************************)
(* Starknet: the per-call transactional state (test_state) over a clone of *)
(* the engine's cache, over a reader pinned at the call's block.           *)
(***************************************************************************)
\* State::set_storage_at on test_state
SnSetStorageAt(m, key, value) ==
    [m EXCEPT !.writes = (key :> value) @@ @]

\* StateReader::get_storage_at on test_state: its writes, its fetched values,
\* the cloned cache, else the reader at the call's block (kept in test_state)
SnGetStorageAt(m, key) ==
    IF key \in DOMAIN m.writes THEN [value |-> m.writes[key], m |-> m]
    ELSE IF key \in DOMAIN m.initial THEN [value |-> m.initial[key], m |-> m]
    ELSE IF key \in DOMAIN m.parent.cache.storage_initial_values
    THEN [value |-> m.parent.cache.storage_initial_values[key], m |-> m]
    ELSE LET v == RemoteStorage(m.block, key[1], key[2])
         IN  [value |-> v,
              m |-> [m EXCEPT !.initial = (key :> v) @@ @,
                              !.rpc = @ \o << Request("storage", key[1], Some(key[2]),
                                                      Some(m.block), m.block) >>]]

\* get_class_hash_at that answers the zero class hash where nothing is deployed
SnGetClassHashAtOrZero(m, a) ==
    IF a \in DOMAIN m.class_initial THEN [ok |-> TRUE, v |-> m.class_initial[a], m |-> m]
    ELSE IF a \in DOMAIN m.parent.cache.class_hash_initial_values
    THEN [ok |-> TRUE, v |-> m.parent.cache.class_hash_initial_values[a], m |-> m]
    ELSE LET got == RemoteClassHashAt(m.block, a)
         IN  [ok |-> TRUE, v |-> got.v,
              m |-> [m EXCEPT !.class_initial = (a :> got.v) @@ @,
                              !.rpc = @ \o << Request("class_hash_at", a, None,
                                                      Some(m.block), m.block) >>]]

\* StateReader::get_class_hash_at on test_state
SnGetClassHashAt(m, a) ==
    IF a \in DOMAIN m.class_initial THEN [ok |-> TRUE, v |-> m.class_initial[a], m |-> m]
    ELSE IF a \in DOMAIN m.parent.cache.class_hash_initial_values
    THEN [ok |-> TRUE, v |-> m.parent.cache.class_hash_initial_values[a], m |-> m]
    ELSE LET got == RemoteClassHashAt(m.block, a)
             m1 == [m EXCEPT !.rpc = @ \o << Request("class_hash_at", a, None,
                                                     Some(m.block), m.block) >>]
         IN  IF got.ok
             THEN [ok |-> TRUE, v |-> got.v,
                   m |-> [m1 EXCEPT !.class_initial = (a :> got.v) @@ @]]
             ELSE [ok |-> FALSE, v |-> 0, m |-> m1]

\* StateReader::get_contract_class on test_state: a class the engine holds, else fetched
SnGetContractClass(m, class_hash) ==
    IF \/ class_hash \in m.classes_loaded
       \/ /\ class_hash \in DOMAIN m.parent.cache.class_hash_to_compiled_class_hash
          /\ m.parent.cache.class_hash_to_compiled_class_hash[class_hash]
                 \in m.parent.contract_classes
    THEN m
    ELSE [m EXCEPT !.classes_loaded = @ \cup {class_hash},
                   !.rpc = @ \o << Request("class", class_hash, None,
                                           Some(m.block), m.block) >>]

(***************************************************************************)
(* The contract code the call runs, as the storage instructions it issues  *)
(* on the target account; params.data selects the entry point.             *)
(***************************************************************************)
Sload(slot) == [op |-> "sload", slot |-> slot, value |-> 0]

Sstore(slot, value) == [op |-> "sstore", slot |-> slot, value |-> value]

Require == [op |-> "require", slot |-> 0, value |-> 0]

ProgramNames == {"get", "set", "check"}

Program(data) ==
    CASE data = "get" -> << Sload(31) >>
      [] data = "set" -> << Sstore(31, 7), Sload(31), Sload(32) >>
      [] data = "check" -> << Sload(31), Require, Sload(32) >>
      [] data = "spend" -> << Sstore(31, 0), Sload(31), Require >>

\* one storage read of the VM: the slot, the value the VM got, and whether the
\* VM had written the slot before
ReadEntry(m, a, slot, value) ==
    [address |-> a, slot |-> slot, value |-> value,
     after_write |-> << a, slot >> \in m.vm_written]

\* one instruction, on either VM
Step(kind, m, ins, to, overrides) ==
    LET key == << to, ins.slot >>
    IN  CASE ins.op = "sload" ->
               LET r == IF kind = "evm"
                        THEN LET m1 == EvmLoadSlot(m, overrides, to, ins.slot)
                             IN  [value |-> IF m1.status = "running"
                                            THEN m1.journal[key].present_value ELSE 0,
                                  m |-> m1]
                        ELSE SnGetStorageAt(m, key)
               IN  IF r.m.status /= "running" THEN r.m
                   ELSE
                   [r.m EXCEPT !.reads = @ \o << ReadEntry(m, to, ins.slot, r.value) >>,
                               !.out = @ \o << r.value >>,
                               !.last = r.value,
                               !.executed = @ + 1]
          [] ins.op = "sstore" ->
               LET m1 == IF kind = "evm"
                         THEN LET m2 == EvmLoadSlot(m, overrides, to, ins.slot)
                              IN  IF m2.status /= "running" THEN m2
                                  ELSE [m2 EXCEPT !.journal[key].present_value = ins.value]
                         ELSE SnSetStorageAt(m, key, ins.value)
               IN  IF m1.status /= "running" THEN m1
                   ELSE [m1 EXCEPT !.vm_written = @ \cup {key}, !.executed = @ + 1]
          [] ins.op = "require" ->
               [m EXCEPT !.status = IF m.last = 0 THEN "aborted" ELSE @,
                         !.executed = @ + 1]

RECURSIVE Exec(_, _, _, _, _)
Exec(kind, m, code, to, overrides) ==
    IF code = << >> \/ m.status /= "running" THEN m
    ELSE Exec(kind, Step(kind, m, Head(code), to, overrides), Tail(code), to, overrides)

\* the state of a run before its first request
NewRun(database, parent, h, tick, block) ==
    [db |-> database, journal |-> << >>, loaded |-> {},
     parent |-> parent, writes |-> << >>, initial |-> << >>, class_initial |-> << >>,
     classes_loaded |-> {}, block |-> block,
     rpc |-> << >>, reads |-> << >>, out |-> << >>, last |-> 0, executed |-> 0,
     vm_written |-> {}, status |-> "running", head0 |-> h, tick |-> tick,
     fail |-> None, failed |-> None, panic |-> "", code_by_hash |-> << >>,
     runtime |-> None, resolved |-> << >>]

(***************************************************************************)
(* SimulationParameters and the two simulate handlers.                     *)
(***************************************************************************)
OverrideChoices == { None, Some(7 :> (31 :> 9)) }

\* the parameter sets of the calls: any call on the deployed contract, and a
\* plain call on the address nothing is deployed at
Params ==
    { p \in [caller : {Caller}, to : Targets, data : ProgramNames,
              overrides : OverrideChoices,
              block_number : {MaxBlock - 1, MaxBlock}] :
        p.to \notin Deployed =>
            p.data = "get" /\ ~p.overrides.some /\ p.block_number = MaxBlock }

\* the request of a call that fails at the node: none, or the first of a kind
\* (a failed get_transaction_count or get_code is unwrapped like a failed get_balance)
Failures == { None, Some("balance"), Some("storage") }

\* the moments a block may arrive during a call: never, or after its third request
Ticks == { None, Some(3) }

\* rB160::from(H160): the same 20 bytes in revm's address type
RB160From(address) == address

\* rU256::from_limbs on the limbs of an ethers U256: both keep four 64-bit
\* limbs, least significant first
RU256FromLimbs(limbs) == limbs

\* the first slot of each account alone
RevmOverridesOneSlot(overrides) ==
    IF overrides.some
    THEN Some([address \in DOMAIN overrides.v |->
                  LET storage == overrides.v[address]
                      kept == IF DOMAIN storage = {} THEN {}
                              ELSE {CHOOSE key \in DOMAIN storage : TRUE}
                  IN  [key \in kept |-> storage[key]]])
    ELSE None

\* SimulationParameters::revm_overrides: every entry converted and inserted
\* into a new map
RevmOverrides(overrides) ==
    IF overrides.some
    THEN LET original == overrides.v
             account_storage(storage) ==
                 [key \in {RU256FromLimbs(k) : k \in DOMAIN storage} |->
                     RU256FromLimbs(storage[CHOOSE k \in DOMAIN storage :
                                                RU256FromLimbs(k) = key])]
         IN  Some([address \in {RB160From(a) : a \in DOMAIN original} |->
                      account_storage(original[CHOOSE a \in DOMAIN original :
                                                   RB160From(a) = address])])
    ELSE None

\* Option::unwrap_or_default on a map
UnwrapOrDefault(o) == IF o.some THEN o.v ELSE << >>

\* what the VM hands back after running the call: Success with the touched
\* state of the journal, or Revert
EvmResultOf(m) ==
    IF m.status = "aborted"
    THEN [tag |-> "Ok",
          result |-> [kind |-> "Revert", gas_used |-> U64Of(21 + m.executed),
                      output |-> m.out],
          state |-> << >>]
    ELSE [tag |-> "Ok",
          result |-> [kind |-> "Success", gas_used |-> U64Of(21 + m.executed),
                      gas_refunded |-> U64Of(0),
                      output |-> [kind |-> "Call", data |-> m.out, address |-> None]],
          state |-> [a \in m.loaded |->
                       [info |-> m.db.accounts[a].info,
                        storage |-> [index \in {k[2] : k \in {j \in DOMAIN m.journal : j[1] = a}}
                                        |-> m.journal[<< a, index >>]]]]]

\* what one simulate call did: the database and scratch state it ended with,
\* its remote requests, the VM's storage reads and the value it returned
RunResult(m, outcome) ==
    [db |-> m.db, writes |-> m.writes, journal |-> m.journal,
     rpc |-> m.rpc, reads |-> m.reads, failed |-> m.failed, outcome |-> outcome]

\* EVM SimulationEngine::simulate
EvmSimulate(database, params, latest, tick, fail, checks) ==
    LET overrides == UnwrapOrDefault(RevmOverrides(params.overrides))
        m0 == [NewRun(database, << >>, latest, tick, params.block_number) EXCEPT !.fail = fail]
        m1 == EvmLoadCode(EvmLoadAccount(EvmLoadAccount(m0, params.caller), params.to),
                          params.to)
        code == IF params.to \in Deployed THEN Program(params.data) ELSE << >>
        m2 == Exec("evm", m1, code, params.to, overrides)
    IN  RunResult(m2, IF m2.status = "panicked"
                      THEN [tag |-> "Panic", message |-> m2.panic]
                      ELSE interpret_evm_result(EvmResultOf(m2), checks))

\* the engine's database after a call that also commits the journal's writes
EvmDbAfterCommitted(database, r) ==
    [r.db EXCEPT !.accounts =
        [a \in DOMAIN @ |->
            [@[a] EXCEPT !.storage =
                [index \in {k[2] : k \in {j \in DOMAIN r.journal : j[1] = a}}
                    |-> r.journal[<< a, index >>].present_value] @@ @]]]

\* the engine's database after a call: simulate holds it by reference, the VM's
\* writes stay in the journal and only fetched entries were added
EvmDbAfter(database, r) == r.db

\* the overrides of a call left out
SnApplyNoOverrides(m, overrides) == m

\* Starknet simulate, "Apply overrides": set_storage_at on test_state per slot
SnApplyOverrides(m, overrides) ==
    IF overrides.some
    THEN LET keys == {<< a, slot >> : a \in DOMAIN overrides.v, slot \in SlotIndexes}
             given == {k \in keys : k[2] \in DOMAIN overrides.v[k[1]]}
         IN  [m EXCEPT !.writes = [k \in given |-> overrides.v[k[1]][k[2]]] @@ @]
    ELSE m

\* Starknet SimulationEngine::interpret_result: todo!()
SnInterpretResult(m) == [tag |-> "Panic", message |-> "not yet implemented"]

SnError(kind, msg) ==
    [tag |-> "Err", error |-> [kind |-> kind, data |-> msg, gas_used |-> None]]

\* BlockTag::Latest and BlockValue::Number(BlockNumber(n))
BlockTagLatest == [tag |-> "Latest", number |-> 0]

BlockValueNumber(n) == [tag |-> "Number", number |-> n]

\* the reader the engine is built over: RpcStateReader::new(RpcState::new(.., Latest, ..))
SetupReader == [block |-> BlockTagLatest]

\* the engine's reader handed on as it is
WithSameBlock(state_reader, block_value) == state_reader

\* state_reader.with_updated_block(block_value): a new reader at that block
WithUpdatedBlock(state_reader, block_value) == [state_reader EXCEPT !.block = block_value]

\* the height a reader's requests are served at
SnReaderHeight(state_reader) ==
    IF state_reader.block.tag = "Number" THEN state_reader.block.number ELSE head

\* the state of a call: CachedState::new_for_testing over the reader at the
\* call's block and clones of the engine's cache and contract classes
SnNewState(state, params) ==
    [cache |-> state.cache, contract_classes |-> state.contract_classes,
     state_reader |-> WithUpdatedBlock(state.state_reader,
                                       BlockValueNumber(params.block_number))]

\* the error of call.execute mapped to a state error
SnExecuteErrorAsStateError(err) == SnError("StateError", err)

\* .map_err(|err| SimulationError::TransactionError(err.to_string())) on call.execute
SnExecuteError(err) == SnError("TransactionError", err)

\* the cache and contract classes handed to the call's state: clones of the engine's
SnCloneState(state) == state

\* test_state: the transactional state of one call
SnTestState(state, params) ==
    LET new_state == SnNewState(SnCloneState(state), params)
    IN  NewRun(<< >>, new_state, 0, None, SnReaderHeight(new_state.state_reader))

\* Starknet SimulationEngine::simulate
SnSimulate(state, params) ==
    LET m0 == SnTestState(state, params)
        m1 == SnApplyOverrides(m0, params.overrides)
        class_hash == SnGetClassHashAt(m1, params.to)
    IN  IF ~class_hash.ok
        THEN RunResult(class_hash.m, SnError("StateError", "contract class hash not found"))
        ELSE LET m2 == SnGetContractClass(class_hash.m, class_hash.v)
                 m3 == Exec("starknet", m2, Program(params.data), params.to, << >>)
             IN  IF m3.status = "aborted"
                 THEN RunResult(m3, SnExecuteError("execution failed"))
                 ELSE RunResult(m3, SnInterpretResult(m3))

\* the engine's state after a call that ran on the engine's own cache
SnEngineAfterShared(state, r) ==
    [state EXCEPT !.cache.storage_initial_values = r.writes @@ @]

\* the engine's state after a call: simulate takes &self and works on clones
SnEngineAfter(state, r) == state

(***************************************************************************)
(* Construction of the engines.                                            *)
(***************************************************************************)
\* revm AccountInfo with zero balance, nonce 0 and no code
ZeroAccountInfo == [balance |-> 0, nonce |-> 0, code_hash |-> KECCAK_EMPTY, code |-> None]

\* SimulationDB::init_account
InitAccount(database, a, info, storage, mocked) ==
    [database EXCEPT !.accounts =
        (a :> [mocked |-> mocked, info |-> info, storage |-> UnwrapOrDefault(storage)]) @@ @]

\* an engine with the zero address seeded only
CreateEngineZeroOnly(database) == InitAccount(database, 0, ZeroAccountInfo, None, FALSE)

\* create_engine: the engine over db, with 0x00..00 and 0x00..04 seeded
CreateEngine(database) ==
    InitAccount(InitAccount(database, 0, ZeroAccountInfo, None, FALSE),
                4, ZeroAccountInfo, None, FALSE)

\* the ContractOverride lists an engine is constructed with
ContractOverrideLists ==
    { << >>,
      << [contract_address |-> 7, class_hash |-> 55, path |-> Some("token.casm"),
          storage_overrides |-> Some(<< 7, 31 >> :> 5)] >>,
      << [contract_address |-> 7, class_hash |-> 55, path |-> None,
          storage_overrides |-> Some(<< 7, 31 >> :> 5)] >> }

\* the class files on disk: whether the file can be read, whether its contents
\* parse as a class of its format, and the class hash computed from that class
\* (None when the hash cannot be computed)
ClassFiles ==
    ("token.casm" :> [parses |-> TRUE, compiled_class_hash |-> Some(200)])
    @@ ("pool.json" :> [parses |-> TRUE, compiled_class_hash |-> Some(201)])
    @@ ("broken.casm" :> [parses |-> FALSE, compiled_class_hash |-> None])
    @@ ("odd.casm" :> [parses |-> TRUE, compiled_class_hash |-> None])
    @@ ("token.sierra" :> [parses |-> TRUE, compiled_class_hash |-> Some(202)])

\* Path::extension of the paths used here
PathExtension(path) ==
    CASE path \in {"token.casm", "broken.casm", "odd.casm", "missing.casm"} -> Some("casm")
      [] path = "pool.json" -> Some("json")
      [] path = "token.sierra" -> Some("sierra")
      [] OTHER -> None

Ok(value) == [tag |-> "Ok", value |-> value]

Err(kind, msg) == [tag |-> "Err", error |-> [kind |-> kind, data |-> msg]]

\* load_compiled_class_from_path: read the file, then parse it by its extension
load_compiled_class_from_path(path) ==
    IF path \notin DOMAIN ClassFiles THEN Err("io", "No such file or directory")
    ELSE CASE PathExtension(path) = Some("casm") ->
                IF ClassFiles[path].parses
                THEN Ok([variant |-> "Casm", file |-> path])
                ELSE Err("serde_json", "expected value")
           [] PathExtension(path) = Some("json") ->
                IF ClassFiles[path].parses
                THEN Ok([variant |-> "Deprecated", file |-> path])
                ELSE Err("program", "invalid contract class")
           [] OTHER -> Err("io", "Unsupported file type")

\* compute_class_hash of a loaded class
compute_class_hash(compiled_class) ==
    IF ClassFiles[compiled_class.file].compiled_class_hash.some
    THEN Ok(ClassFiles[compiled_class.file].compiled_class_hash.v)
    ELSE Err("hash", "could not compute the class hash")

EmptyStateCache ==
    [class_hash_initial_values |-> << >>, nonce_initial_values |-> << >>,
     storage_initial_values |-> << >>, class_hash_to_compiled_class_hash |-> << >>]

\* the caches after one more record with a class file
SnInsertContract(state, input_contract, compiled_class_hash) ==
    [cache |->
        [class_hash_initial_values |->
            (input_contract.contract_address :> input_contract.class_hash)
                @@ state.cache.class_hash_initial_values,
         nonce_initial_values |->
            (input_contract.contract_address :> 0)
                @@ state.cache.nonce_initial_values,
         storage_initial_values |->
            UnwrapOrDefault(input_contract.storage_overrides)
                @@ state.cache.storage_initial_values,
         class_hash_to_compiled_class_hash |->
            (input_contract.class_hash :> compiled_class_hash)
                @@ state.cache.class_hash_to_compiled_class_hash],
     contract_classes |-> state.contract_classes \cup {compiled_class_hash},
     state_reader |-> state.state_reader]

\* the loop that passes over a record whose class fails to load
RECURSIVE SnLoadContractsSkippingFailed(_, _)
SnLoadContractsSkippingFailed(state, contract_overrides) ==
    IF contract_overrides = << >> THEN Ok(state)
    ELSE LET input_contract == Head(contract_overrides)
             rest == Tail(contract_overrides)
         IN  IF ~input_contract.path.some
             THEN SnLoadContractsSkippingFailed(state, rest)
             ELSE LET compiled_class == load_compiled_class_from_path(input_contract.path.v)
                  IN  IF compiled_class.tag = "Err"
                      THEN SnLoadContractsSkippingFailed(state, rest)
                      ELSE LET compiled_class_hash == compute_class_hash(compiled_class.value)
                           IN  IF compiled_class_hash.tag = "Err"
                               THEN SnLoadContractsSkippingFailed(state, rest)
                               ELSE SnLoadContractsSkippingFailed(
                                        SnInsertContract(state, input_contract,
                                                         compiled_class_hash.value), rest)

\* Starknet SimulationEngine::new, "Load contracts": the records that carry a
\* path are loaded, in order; the first failure returns InitError
RECURSIVE SnLoadContracts(_, _)
SnLoadContracts(state, contract_overrides) ==
    IF contract_overrides = << >> THEN Ok(state)
    ELSE LET input_contract == Head(contract_overrides)
             rest == Tail(contract_overrides)
         IN  IF ~input_contract.path.some
             THEN SnLoadContracts(state, rest)
             ELSE LET compiled_class == load_compiled_class_from_path(input_contract.path.v)
                  IN  IF compiled_class.tag = "Err"
                      THEN Err("InitError", "Failed to load contract from path")
                      ELSE LET compiled_class_hash == compute_class_hash(compiled_class.value)
                           IN  IF compiled_class_hash.tag = "Err"
                               THEN Err("InitError",
                                        "Failed to compute class hash for contract")
                               ELSE SnLoadContracts(
                                        SnInsertContract(state, input_contract,
                                                         compiled_class_hash.value), rest)

\* Starknet SimulationEngine::new: Ok(Self { state }) with the caches filled
SnNew(contract_overrides) ==
    SnLoadContracts([cache |-> EmptyStateCache, contract_classes |-> {},
                     state_reader |-> SetupReader],
                    contract_overrides)

(***************************************************************************)
(* Ingest: update_engine and the database's update.                        *)
(***************************************************************************)
AccountUpdate(address, chain, slots, balance, code, change) ==
    [address |-> address, chain |-> chain, slots |-> slots, balance |-> balance,
     code |-> code, change |-> change]

\* tycho ResponseAccount, the fields update_engine reads
ResponseAccount(address, chain, slots, balance, code) ==
    [address |-> address, chain |-> chain, slots |-> slots, balance |-> balance,
     code |-> code]

\* the batches of the feed
AccountUpdateBatches ==
    { << >>, << AccountUpdate(7, "ethereum", 31 :> 6, None, None, "Update") >> }

\* the snapshots of the feed
VmStorageChoices ==
    { None, Some(<< ResponseAccount(7, "ethereum", 32 :> 6, 3, << 96, 7 >>) >>) }

\* the snapshot accounts turned into partial updates
RECURSIVE ResponseAccountsToPartialUpdates(_)
ResponseAccountsToPartialUpdates(accounts) ==
    IF accounts = << >> THEN << >>
    ELSE << AccountUpdate(Head(accounts).address, Head(accounts).chain,
                          Head(accounts).slots, Some(Head(accounts).balance),
                          Some(Head(accounts).code), "Update") >>
             \o ResponseAccountsToPartialUpdates(Tail(accounts))

\* update_engine: ResponseAccount objects to AccountUpdate objects
RECURSIVE ResponseAccountsToUpdates(_)
ResponseAccountsToUpdates(accounts) ==
    IF accounts = << >> THEN << >>
    ELSE << AccountUpdate(Head(accounts).address, Head(accounts).chain,
                          Head(accounts).slots, Some(Head(accounts).balance),
                          Some(Head(accounts).code), "Creation") >>
             \o ResponseAccountsToUpdates(Tail(accounts))

\* update_engine: the updates handed to the database
VmUpdates(vm_storage, account_updates) ==
    account_updates \o (IF vm_storage.some THEN ResponseAccountsToUpdates(vm_storage.v)
                        ELSE << >>)

\* one AccountUpdate applied: a creation overwrites the entry, an update merges
ApplyAccountUpdate(database, u) ==
    IF u.change = "Creation" \/ u.address \notin DOMAIN database.accounts
    THEN [database EXCEPT !.accounts =
            (u.address :> [mocked |-> u.change = "Creation",
                           info |-> AccountInfoNew(IF u.balance.some THEN u.balance.v ELSE 0,
                                                   0,
                                                   BytecodeNewRaw(IF u.code.some THEN u.code.v
                                                                  ELSE << >>)),
                           storage |-> u.slots]) @@ @]
    ELSE [database EXCEPT
            !.accounts[u.address].storage = u.slots @@ @,
            !.accounts[u.address].info =
                [@ EXCEPT !.balance = IF u.balance.some THEN u.balance.v ELSE @,
                          !.code = IF u.code.some THEN Some(BytecodeNewRaw(u.code.v)) ELSE @,
                          !.code_hash = IF u.code.some THEN BytecodeNewRaw(u.code.v).hash ELSE @]]

RECURSIVE ApplyAccountUpdates(_, _)
ApplyAccountUpdates(database, updates) ==
    IF updates = << >> THEN database
    ELSE ApplyAccountUpdates(ApplyAccountUpdate(database, Head(updates)), Tail(updates))

\* an update that commits the first record of the batch only
DbUpdateFirstRecordOnly(database, updates, block) ==
    LET pinned ==
          IF block.some /\ block.v /= database.pin
          THEN [pin |-> block.v,
                accounts |-> [a \in DOMAIN database.accounts |->
                                 IF database.accounts[a].mocked THEN database.accounts[a]
                                 ELSE [database.accounts[a] EXCEPT !.storage = << >>]]]
          ELSE database
    IN  ApplyAccountUpdates(pinned, IF updates = << >> THEN << >> ELSE << Head(updates) >>)

\* the database's update: a new pin drops the cached storage, then the batch is applied
DbUpdate(database, updates, block) ==
    LET pinned ==
          IF block.some /\ block.v /= database.pin
          THEN [pin |-> block.v,
                accounts |-> [a \in DOMAIN database.accounts |->
                                 IF database.accounts[a].mocked THEN database.accounts[a]
                                 ELSE [database.accounts[a] EXCEPT !.storage = << >>]]]
          ELSE database
    IN  ApplyAccountUpdates(pinned, updates)

\* update_engine with the database's update called for an empty batch too
UpdateEngineAlways(database, block, vm_storage, account_updates) ==
    LET vm_updates == VmUpdates(vm_storage, account_updates)
    IN  [db |-> DbUpdate(database, vm_updates, Some(block)),
         update_calls |-> << [updates |-> vm_updates, block |-> Some(block)] >>,
         vm_updates |-> vm_updates]

\* update_engine: the database after it, the calls of the database's update it
\* made, and the vector it returns
UpdateEngine(database, block, vm_storage, account_updates) ==
    LET vm_updates == VmUpdates(vm_storage, account_updates)
    IN  IF vm_updates /= << >>
        THEN [db |-> DbUpdate(database, vm_updates, Some(block)),
              update_calls |-> << [updates |-> vm_updates, block |-> Some(block)] >>,
              vm_updates |-> vm_updates]
        ELSE [db |-> database, update_calls |-> << >>, vm_updates |-> vm_updates]

(***************************************************************************)
(* The engines as a state machine.                                         *)
(***************************************************************************)
\* the databases an EVM engine is created over: empty, or with a mocked token
InitialDatabases ==
    { [pin |-> MaxBlock, accounts |-> << >>],
      InitAccount([pin |-> MaxBlock, accounts |-> << >>], 7,
                  AccountInfoNew(1, 0, BytecodeNewRaw(<< 96, 7 >>)),
                  Some(31 :> 5), TRUE) }

NoCall ==
    [n |-> 0, params |-> [caller |-> Caller, to |-> 7, data |-> "get", overrides |-> None,
                          block_number |-> MaxBlock],
     tick |-> None, pin |-> MaxBlock, rpc |-> << >>, reads |-> << >>, failed |-> None,
     outcome |-> [tag |-> "None"],
     repeat |-> FALSE, after_overrides |-> FALSE, ingested |-> FALSE]

NoFetches == [once |-> {}, twice |-> {}]

\* what a request fetched: the slot, or the account for the batch of basic
FetchKey(request) ==
    IF request.kind = "storage" THEN << "storage", request.address, request.slot.v >>
    ELSE IF request.kind \in {"nonce", "code"} THEN << "batch" >>
    ELSE << request.kind, request.address >>

FetchKeys(rpc) == {FetchKey(rpc[i]) : i \in 1..Len(rpc)} \ { << "batch" >> }

Init ==
    /\ vm \in {"evm", "starknet"}
    /\ head = MaxBlock
    /\ IF vm = "evm"
       THEN /\ db \in {CreateEngine(database) : database \in InitialDatabases}
            /\ sn_state = << >>
       ELSE /\ db = << >>
            /\ sn_state \in {SnNew(contract_overrides).value :
                                  contract_overrides \in ContractOverrideLists}
    /\ fetches = NoFetches
    /\ call = NoCall
    /\ overflow_checks = TRUE
    /\ evm_result = [tag |-> "Err", error |-> [kind |-> "Database", message |-> "boo"]]
    /\ projected = None
    /\ sim_params = << >> /\ tx_env = None
    /\ built = None /\ run = NoRun /\ ingest = NoIngest /\ engines = << >>

\* simulate on the engine of this state
EngineSimulate(params, tick, fail) ==
    IF vm = "evm" THEN EvmSimulate(db, params, head, tick, fail, overflow_checks)
    ELSE SnSimulate(sn_state, params)

\* one simulate call on the engine; a block may arrive at the node while the
\* call is between two of its requests, or a request of the EVM reader may fail
Simulate(params, tick, fail) ==
    \E r \in {EngineSimulate(params, tick, fail)} :
        /\ tick.some => /\ head < MaxBlock + MaxNewBlocks
                        /\ tick.v < Len(r.rpc)
                        /\ ~fail.some
        /\ fail.some => vm = "evm" /\ r.failed.some
        /\ head' = IF tick.some THEN head + 1 ELSE head
        /\ db' = IF vm = "evm" THEN EvmDbAfter(db, r) ELSE db
        /\ sn_state' = IF vm = "starknet" THEN SnEngineAfter(sn_state, r) ELSE sn_state
        /\ fetches' = [once |-> fetches.once \cup FetchKeys(r.rpc),
                       twice |-> fetches.twice \cup (fetches.once \cap FetchKeys(r.rpc))]
        /\ call' = [n |-> 1, params |-> params, tick |-> tick,
                    pin |-> IF vm = "evm" THEN db.pin ELSE params.block_number,
                    rpc |-> r.rpc, reads |-> r.reads, failed |-> r.failed,
                    outcome |-> r.outcome,
                    repeat |-> call.n > 0 /\ ~call.ingested /\ call.params = params,
                    after_overrides |-> call.n > 0 /\ ~call.ingested
                                          /\ call.params.overrides.some,
                    ingested |-> FALSE]
        /\ UNCHANGED << vm, overflow_checks, projector_vars, conversion_vars, lifecycle_vars >>

\* the feed delivers the updates of a block the database is not pinned at yet
Ingest(vm_storage, account_updates) ==
    /\ vm = "evm"
    /\ db.pin < head
    /\ LET after == UpdateEngine(db, head, vm_storage, account_updates)
       IN  /\ db' = after.db
           /\ fetches' = IF after.db.pin /= db.pin THEN NoFetches ELSE fetches
           /\ call' = [call EXCEPT !.ingested = @ \/ after.vm_updates /= << >>]
    /\ UNCHANGED << vm, head, sn_state, overflow_checks, projector_vars, conversion_vars, lifecycle_vars >>

\* the chain grows by one block
NewBlock ==
    /\ head < MaxBlock + MaxNewBlocks
    /\ head' = head + 1
    /\ UNCHANGED << vm, db, sn_state, fetches, call, overflow_checks, projector_vars,
                    conversion_vars, lifecycle_vars >>

Next ==
    \/ \E params \in Params, tick \in Ticks : Simulate(params, tick, None)
    \/ \E vm_storage \in VmStorageChoices, account_updates \in AccountUpdateBatches :
          Ingest(vm_storage, account_updates)
    \/ NewBlock

Spec == Init /\ [][Next]_vars

\* the engines against a node whose answers may fail
FailureNext == \E params \in Params, fail \in Failures : Simulate(params, None, fail)

FailureSpec == Init /\ [][FailureNext]_vars

(***************************************************************************)
(* The life of an engine, step by step: construction by the factory, then  *)
(* simulate calls taken one database read at a time, with update_engine    *)
(* running next to them on the database the engine shares.                 *)
(***************************************************************************)
\* the ContractOverride lists handed to the Starknet factory, with class files
\* that load and class files that do not
FactoryInputs ==
    LET token == [contract_address |-> 7, class_hash |-> 55, path |-> Some("token.casm"),
                  storage_overrides |-> Some(<< 7, 31 >> :> 5)]
        pool == [contract_address |-> 9, class_hash |-> 56, path |-> Some("pool.json"),
                 storage_overrides |-> None]
        template == [contract_address |-> 9, class_hash |-> 55, path |-> None,
                     storage_overrides |-> Some(<< 9, 31 >> :> 5)]
        failing == {[contract_address |-> 9, class_hash |-> 57, path |-> Some(path),
                     storage_overrides |-> None] :
                       path \in {"broken.casm", "missing.casm", "token.sierra", "odd.casm"}}
    IN  { << >>, << token >>, << token, pool >>, << template >>, << token, template >> }
        \cup {<< bad >> : bad \in failing}
        \cup {<< token, bad >> : bad \in failing}

\* the calls made on the constructed engine: from the caller or from the zero
\* address, on the deployed contract, on an address with nothing deployed, and on
\* the precompile address 4; "spend" writes a slot and then fails
LifecycleParams ==
    { p \in [caller : {0, Caller}, to : {4} \cup Targets,
              data : ProgramNames \cup {"spend"},
              overrides : OverrideChoices, block_number : {MaxBlock - 1, MaxBlock}] :
        /\ p.to \notin Deployed => p.data = "get" /\ ~p.overrides.some
        /\ p.caller = 0 => p.data = "get" /\ ~p.overrides.some /\ p.to /= 9
        /\ p.overrides.some => p.data = "check"
        /\ p.block_number /= MaxBlock =>
              p.data = "get" /\ p.caller = Caller /\ p.to = 7 }

\* the calls that run while update_engine is called: on the deployed contract,
\* and from the zero address on the precompile address
IngestParams ==
    { p \in LifecycleParams :
        /\ ~p.overrides.some /\ p.data \in ProgramNames /\ p.block_number = MaxBlock
        /\ (p.caller = Caller /\ p.to = 7) \/ (p.caller = 0 /\ p.to = 4) }

\* the batches and snapshots update_engine is called with
IngestAccountUpdates ==
    { << >>,
      << AccountUpdate(7, "ethereum", 31 :> 6, None, None, "Update") >>,
      << AccountUpdate(7, "ethereum", (31 :> 6) @@ (32 :> 6), Some(2), None, "Update"),
         AccountUpdate(1, "ethereum", << >>, Some(5), None, "Update") >> }

IngestVmStorage ==
    { None, Some(<< >>),
      Some(<< ResponseAccount(7, "ethereum", 32 :> 6, 3, << 96, 7 >>) >>) }

\* create_engine(db, trace)
CreateEngineCall(database) ==
    /\ ~built.some
    /\ vm' = "evm"
    /\ db' = CreateEngine(database)
    /\ built' = Some([factory |-> "create_engine", input |-> database, result |-> [tag |-> "Ok"]])
    /\ UNCHANGED << head, sn_state, fetches, call, run, ingest, overflow_checks, engines,
                    projector_vars, conversion_vars >>

\* SimulationEngine::new(rpc_state_reader, contract_overrides)
SnNewCall(contract_overrides) ==
    /\ ~built.some
    /\ LET result == SnNew(contract_overrides)
       IN  /\ vm' = IF result.tag = "Ok" THEN "starknet" ELSE vm
           /\ sn_state' = IF result.tag = "Ok" THEN result.value ELSE sn_state
           /\ built' = Some([factory |-> "SimulationEngine::new", input |-> contract_overrides,
                             result |-> IF result.tag = "Ok" THEN [tag |-> "Ok"] ELSE result])
    /\ UNCHANGED << head, db, fetches, call, run, ingest, overflow_checks, engines,
                    projector_vars, conversion_vars >>

\* the run with the database and the chain as they are now
RunNow == [run.m EXCEPT !.db = db, !.head0 = head]

\* the run as kept between two steps: the database is the engine's, not the run's
RunKept(m) == [m EXCEPT !.db = << >>]

\* the call returns to its caller
Returned(m, outcome) ==
    [run EXCEPT !.phase = "Idle", !.m = RunKept(m), !.code = << >>, !.outcome = outcome]

\* simulate is entered: the call's state is set up and its overrides applied
BeginSimulate(params) ==
    /\ vm \in {"evm", "starknet"}
    /\ run.phase = "Idle"
    /\ run' = [phase |-> "Preparing", n |-> 1, params |-> params,
               m |-> IF vm = "evm"
                     THEN NewRun(<< >>, << >>, head, None, params.block_number)
                     ELSE SnApplyOverrides(SnTestState(sn_state, params), params.overrides),
               code |-> << >>, trace |-> << "Preparing" >>, pins |-> << >>,
               outcome |-> [tag |-> "None"],
               previous |-> IF run.n > 0
                            THEN Some([block_number |-> run.params.block_number,
                                       initial |-> run.m.initial])
                            ELSE None]
    /\ UNCHANGED << vm, head, db, sn_state, fetches, call, built, ingest, overflow_checks, engines,
                    projector_vars, conversion_vars >>

\* the target of the call is resolved: the class hash at params.to (Starknet),
\* the caller's and the target's accounts and the target's code (EVM)
ResolveTarget ==
    /\ run.phase = "Preparing"
    /\ IF vm = "evm"
       THEN LET m1 == EvmLoadCode(
                          EvmLoadAccount(EvmLoadAccount(RunNow, run.params.caller),
                                         run.params.to),
                          run.params.to)
            IN  /\ run' = [run EXCEPT !.phase = "Executing", !.m = RunKept(m1),
                                      !.code = IF run.params.to \in Deployed
                                               THEN Program(run.params.data) ELSE << >>,
                                      !.trace = @ \o << "Executing" >>]
                /\ db' = m1.db
                /\ UNCHANGED sn_state
       ELSE LET class_hash == SnGetClassHashAt(run.m, run.params.to)
                failed == RunResult(class_hash.m,
                                    SnError("StateError", "contract class hash not found"))
            IN  /\ run' = IF class_hash.ok
                          THEN [run EXCEPT !.phase = "Executing",
                                           !.m = SnGetContractClass(class_hash.m, class_hash.v),
                                           !.code = Program(run.params.data),
                                           !.trace = @ \o << "Executing" >>]
                          ELSE Returned(class_hash.m, failed.outcome)
                /\ sn_state' = IF class_hash.ok THEN sn_state
                               ELSE SnEngineAfter(sn_state, failed)
                /\ UNCHANGED db
    /\ UNCHANGED << vm, head, fetches, call, built, ingest, overflow_checks, engines,
                    projector_vars, conversion_vars >>

\* the VM executes the next storage instruction of the entry point
ExecuteStep ==
    /\ run.phase = "Executing"
    /\ run.code /= << >>
    /\ run.m.status = "running"
    /\ LET m1 == Step(vm, RunNow, Head(run.code), run.params.to,
                      IF vm = "evm" THEN UnwrapOrDefault(RevmOverrides(run.params.overrides))
                      ELSE << >>)
       IN  /\ run' = [run EXCEPT !.m = RunKept(m1), !.code = Tail(@),
                                 !.pins = IF Len(m1.reads) > Len(run.m.reads)
                                          THEN @ \o << IF vm = "evm" THEN db.pin
                                                       ELSE run.params.block_number >>
                                          ELSE @]
           /\ db' = IF vm = "evm" THEN m1.db ELSE db
    /\ UNCHANGED << vm, head, sn_state, fetches, call, built, ingest, overflow_checks, engines,
                    projector_vars, conversion_vars >>

\* the execution is over: an error of the entry point returns, a result of the VM
\* goes on to be projected
FinishExecution ==
    /\ run.phase = "Executing"
    /\ run.code = << >> \/ run.m.status /= "running"
    /\ LET failed == IF vm = "evm"
                     THEN RunResult(RunNow, [tag |-> "Panic", message |-> run.m.panic])
                     ELSE RunResult(run.m, SnExecuteError("execution failed"))
           fails == IF vm = "evm" THEN run.m.status = "panicked"
                    ELSE run.m.status = "aborted"
       IN  /\ run' = IF fails THEN Returned(run.m, failed.outcome)
                     ELSE [run EXCEPT !.phase = "Projecting",
                                      !.trace = @ \o << "Projecting" >>]
           /\ db' = IF vm = "evm" /\ fails THEN EvmDbAfter(db, failed) ELSE db
           /\ sn_state' = IF vm = "starknet" /\ fails THEN SnEngineAfter(sn_state, failed)
                          ELSE sn_state
    /\ UNCHANGED << vm, head, fetches, call, built, ingest, overflow_checks, engines,
                    projector_vars, conversion_vars >>

\* the VM's result is projected and returned
Project ==
    /\ run.phase = "Projecting"
    /\ LET r == IF vm = "evm"
                THEN RunResult(RunNow, interpret_evm_result(EvmResultOf(RunNow),
                                                            overflow_checks))
                ELSE RunResult(run.m, SnInterpretResult(run.m))
       IN  /\ run' = Returned(run.m, r.outcome)
           /\ db' = IF vm = "evm" THEN EvmDbAfter(db, r) ELSE db
           /\ sn_state' = IF vm = "starknet" THEN SnEngineAfter(sn_state, r) ELSE sn_state
    /\ UNCHANGED << vm, head, fetches, call, built, ingest, overflow_checks, engines,
                    projector_vars, conversion_vars >>

\* update_engine(db, block, vm_storage, account_updates) on the database the
\* engine shares, at any point of a call
UpdateEngineCall(vm_storage, account_updates) ==
    /\ vm = "evm"
    /\ db.pin < head
    /\ LET after == UpdateEngine(db, head, vm_storage, account_updates)
       IN  /\ db' = after.db
           /\ ingest' = [called |-> TRUE, block |-> head, vm_storage |-> vm_storage,
                         account_updates |-> account_updates,
                         submitted |-> after.update_calls, returned |-> after.vm_updates,
                         before |-> db, after |-> after.db]
    /\ UNCHANGED << vm, head, sn_state, fetches, call, built, run, overflow_checks, engines,
                    projector_vars, conversion_vars >>

LifecycleInit ==
    /\ vm = "none"
    /\ head = MaxBlock
    /\ db = << >> /\ sn_state = << >>
    /\ fetches = NoFetches /\ call = NoCall
    /\ overflow_checks = TRUE
    /\ evm_result = << >> /\ projected = None
    /\ sim_params = << >> /\ tx_env = None
    /\ built = None /\ run = NoRun /\ ingest = NoIngest /\ engines = << >>

LifecycleNext ==
    \/ \E database \in InitialDatabases : CreateEngineCall(database)
    \/ \E contract_overrides \in FactoryInputs : SnNewCall(contract_overrides)
    \/ \E params \in LifecycleParams : BeginSimulate(params)
    \/ ResolveTarget
    \/ ExecuteStep
    \/ FinishExecution
    \/ Project

LifecycleSpec == LifecycleInit /\ [][LifecycleNext]_vars

\* an EVM engine, its calls, and the ingest of new blocks into its database
IngestNext ==
    \/ \E database \in InitialDatabases : CreateEngineCall(database)
    \/ \E params \in IngestParams : BeginSimulate(params)
    \/ ResolveTarget
    \/ ExecuteStep
    \/ FinishExecution
    \/ Project
    \/ \E vm_storage \in IngestVmStorage, account_updates \in IngestAccountUpdates :
          UpdateEngineCall(vm_storage, account_updates)
    \/ NewBlock

IngestSpec == LifecycleInit /\ [][IngestNext]_vars

(***************************************************************************)
(* Two EVM engines, each over its own database, with one remote reader     *)
(* behind both.  Their calls advance one database read at a time, in any   *)
(* order.                                                                  *)
(***************************************************************************)
EngineIds == {1, 2}

OtherEngine(e) == CHOOSE o \in EngineIds : o /= e

\* the calls the two engines are given: all of them on the deployed contract
EnginesParams == { p \in Params : p.to \in Deployed /\ p.block_number = MaxBlock }

\* runtime: Option<Arc<tokio::runtime::Runtime>> of the engine's reader
Runtimes == { None, Some("tokio") }

NoEngineRun ==
    [phase |-> "Idle", n |-> 0, params |-> << >>, m |-> << >>, code |-> << >>,
     outcome |-> [tag |-> "None"], alone |-> << >>, overlapped |-> FALSE]

\* inner_db: &self.state, the database of the engine the call is made on
EngineDatabase(es, e) == es[e].state

\* the overrides of whichever call is in flight, the other engine's before the own
EngineOverridesShared(es, e) ==
    LET of(o) == IF es[o].run.n > 0 /\ es[o].run.phase /= "Idle"
                 THEN UnwrapOrDefault(RevmOverrides(es[o].run.params.overrides))
                 ELSE << >>
    IN  of(OtherEngine(e)) @@ of(e)

\* overrides: &params.revm_overrides().unwrap_or_default(), those of the call itself
EngineOverrides(es, e) == UnwrapOrDefault(RevmOverrides(es[e].run.params.overrides))

\* the run of engine e with its database and the chain as they are now
EngineRunNow(es, e) ==
    [es[e].run.m EXCEPT !.db = EngineDatabase(es, e), !.head0 = head,
                        !.runtime = es[e].runtime]

\* simulate on engine e, run alone from the engine's present state
SimulateAlone(es, e, params) ==
    EvmSimulate(es[e].state, params, head, None, None, overflow_checks)

\* engine e after the next step of its call: the caller's account, the target's
\* account and code, one storage instruction, or the projection of the result
EngineAdvanced(es, e) ==
    LET r == es[e].run
        m == EngineRunNow(es, e)
        overrides == EngineOverrides(es, e)
    IN  IF r.phase = "Preparing" /\ r.params.caller \notin m.loaded
        THEN LET m1 == EvmLoadAccount(m, r.params.caller)
             IN  [es[e] EXCEPT !.state = m1.db, !.run = [r EXCEPT !.m = RunKept(m1)]]
        ELSE IF r.phase = "Preparing"
        THEN LET m1 == EvmLoadCode(EvmLoadAccount(m, r.params.to), r.params.to)
             IN  [es[e] EXCEPT
                     !.state = m1.db,
                     !.run = [r EXCEPT !.phase = "Executing", !.m = RunKept(m1),
                                       !.code = IF r.params.to \in Deployed
                                                THEN Program(r.params.data) ELSE << >>]]
        ELSE IF r.code /= << >> /\ m.status = "running"
        THEN LET m1 == Step("evm", m, Head(r.code), r.params.to, overrides)
             IN  [es[e] EXCEPT !.state = m1.db,
                               !.run = [r EXCEPT !.m = RunKept(m1), !.code = Tail(@)]]
        ELSE LET result == RunResult(m, interpret_evm_result(EvmResultOf(m), overflow_checks))
             IN  [es[e] EXCEPT
                     !.state = EvmDbAfter(es[e].state, result),
                     !.run = [r EXCEPT !.phase = "Idle", !.m = RunKept(m), !.code = << >>,
                                       !.outcome = result.outcome]]

\* a step of engine e taken while the other engine's call is in flight
Overlapped(es, e) ==
    IF es[OtherEngine(e)].run.phase = "Idle" THEN es
    ELSE [o \in EngineIds |-> [es[o] EXCEPT !.run.overlapped = TRUE]]

\* simulate is entered on engine e
EngineBegin(e, params) ==
    /\ engines[e].run.n = 0
    /\ \E alone \in {SimulateAlone(engines, e, params)} :
       \E begun \in {[engines EXCEPT ![e].run =
                          [phase |-> "Preparing", n |-> 1, params |-> params,
                           m |-> NewRun(<< >>, << >>, head, None, params.block_number),
                           code |-> << >>, outcome |-> [tag |-> "None"],
                           alone |-> alone, overlapped |-> FALSE]]} :
          engines' = Overlapped(begun, e)
    /\ UNCHANGED << engine_vars, overflow_checks, projector_vars, conversion_vars,
                    built, run, ingest >>

\* the call on engine e goes on to its next database read, or returns
EngineAdvance(e) ==
    /\ engines[e].run.phase /= "Idle"
    /\ \E advanced \in {EngineAdvanced(engines, e)} :
       \E stepped \in {[engines EXCEPT ![e] = advanced]} :
          engines' = Overlapped(stepped, e)
    /\ UNCHANGED << engine_vars, overflow_checks, projector_vars, conversion_vars,
                    built, run, ingest >>

EnginesInit ==
    /\ vm = "evm"
    /\ head = MaxBlock
    /\ db = << >> /\ sn_state = << >>
    /\ fetches = NoFetches /\ call = NoCall
    /\ overflow_checks = TRUE
    /\ evm_result = << >> /\ projected = None
    /\ sim_params = << >> /\ tx_env = None
    /\ built = None /\ run = NoRun /\ ingest = NoIngest
    /\ engines \in [EngineIds -> {[state |-> CreateEngine(database), runtime |-> runtime,
                                    run |-> NoEngineRun] :
                                      database \in InitialDatabases, runtime \in Runtimes}]

EnginesNext ==
    \/ \E e \in EngineIds, params \in EnginesParams : EngineBegin(e, params)
    \/ \E e \in EngineIds : EngineAdvance(e)

EnginesSpec == EnginesInit /\ [][EnginesNext]_vars

(***************************************************************************)
(* The projector alone: interpret_evm_result applied to every EVMResult of *)
(* the bounded input set, under both build profiles.                       *)
(***************************************************************************)
ProjectorInit ==
    /\ evm_result \in EVMResults
    /\ projected = None
    /\ sim_params = << >> /\ tx_env = None
    /\ built = None /\ run = NoRun /\ ingest = NoIngest /\ engines = << >>
    /\ overflow_checks \in BOOLEAN
    /\ vm = "evm" /\ head = MaxBlock /\ db = << >> /\ sn_state = << >>
    /\ fetches = << >> /\ call = << >>

InterpretEvmResult ==
    /\ ~projected.some
    /\ projected' = Some(interpret_evm_result(evm_result, overflow_checks))
    /\ UNCHANGED << evm_result, overflow_checks, engine_vars, conversion_vars, lifecycle_vars >>

ProjectorNext == InterpretEvmResult

ProjectorSpec == ProjectorInit /\ [][ProjectorNext]_vars

(***************************************************************************)
(* The converters of SimulationParameters to the VM's types, and the       *)
(* environment simulate builds with them.  Addresses are their 20 bytes,   *)
(* U256 values their four 64-bit limbs (least significant first), u64      *)
(* values numbers.                                                         *)
(***************************************************************************)
\* Address::zero()
ZeroAddress == [i \in 1..20 |-> 0]

\* the address of test_converting_to_revm, by its first and last bytes
RouterAddress == [i \in 1..20 |-> IF i = 1 THEN 122 ELSE IF i = 20 THEN 141 ELSE 0]

\* rU256::default(): zero
RU256Zero == << 0, 0, 0, 0 >>

\* the override maps of the conversions: none, an empty one, the one of the test
\* (slots 1 and 2 of the zero address), and two accounts whose slots differ in
\* a high limb only
ConversionOverrides ==
    { None,
      Some(<< >>),
      Some(ZeroAddress :> ((<< 1, 0, 0, 0 >> :> << 11, 0, 0, 0 >>)
                           @@ (<< 2, 0, 0, 0 >> :> << 22, 0, 0, 0 >>))),
      Some((ZeroAddress :> ((<< 1, 0, 0, 0 >> :> << 11, 0, 0, 0 >>)
                            @@ (<< 1, 0, 0, 1 >> :> << 0, 0, 0, 22 >>)))
           @@ (RouterAddress :> << >>)) }

\* the SimulationParameters handed to the converters
ConversionParams ==
    [caller : {RouterAddress},
     to : {ZeroAddress, RouterAddress},
     data : { << >>, << 72, 101, 108, 108, 111 >> },
     value : { << 123, 0, 0, 0 >>, << 0, 0, 1, 2 >> },
     overrides : ConversionOverrides,
     gas_limit : {None, Some(0), Some(33)},
     block_number : {0, MaxBlock},
     timestamp : {1700}]

\* rB160::from_slice: the bytes of the slice, copied
RB160FromSlice(bytes) == [i \in 1..Len(bytes) |-> bytes[i]]

revm_caller(params) == RB160FromSlice(params.caller)

\* every target taken as a call
RevmToAlwaysCall(params) == [kind |-> "Call", address |-> RB160FromSlice(params.to)]

revm_to(params) ==
    IF params.to = ZeroAddress
    THEN [kind |-> "Create", scheme |-> "Create2", salt |-> RU256Zero]
    ELSE [kind |-> "Call", address |-> RB160FromSlice(params.to)]

\* Bytes::copy_from_slice
revm_data(params) == [i \in 1..Len(params.data) |-> params.data[i]]

revm_value(params) == RU256FromLimbs(params.value)

revm_gas_limit(params) == params.gas_limit

\* the number put into the most significant limb
RevmBlockNumberHighLimb(params) == << 0, 0, 0, params.block_number >>

\* rU256::from_limbs([self.block_number, 0, 0, 0])
revm_block_number(params) == << params.block_number, 0, 0, 0 >>

revm_timestamp(params) == << params.timestamp, 0, 0, 0 >>

\* the default of the Starknet engine: unwrap_or(0)
GasLimitOrZero(gas_limit) == IF gas_limit.some THEN gas_limit.v ELSE 0

\* unwrap_or(8_000_000)
GasLimitOrDefault(gas_limit) == IF gas_limit.some THEN gas_limit.v ELSE 8000000

\* simulate: the environment of the new EVM
TxEnv(params) ==
    [block |-> [number |-> revm_block_number(params), timestamp |-> revm_timestamp(params)],
     tx |-> [caller |-> revm_caller(params),
             transact_to |-> revm_to(params),
             data |-> revm_data(params),
             value |-> revm_value(params),
             gas_limit |-> GasLimitOrDefault(revm_gas_limit(params))],
     overrides |-> UnwrapOrDefault(RevmOverrides(params.overrides))]

ConversionInit ==
    /\ sim_params \in ConversionParams
    /\ tx_env = None
    /\ evm_result = << >> /\ projected = None /\ overflow_checks = TRUE
    /\ vm = "evm" /\ head = MaxBlock /\ db = << >> /\ sn_state = << >>
    /\ fetches = << >> /\ call = << >>
    /\ built = None /\ run = NoRun /\ ingest = NoIngest /\ engines = << >>

\* simulate, up to the start of the VM: a new EVM with the environment of params
BuildTxEnv(params) ==
    /\ sim_params' = params
    /\ tx_env' = Some(TxEnv(params))
    /\ UNCHANGED << projector_vars, overflow_checks, engine_vars, lifecycle_vars >>

ConversionNext == \E params \in ConversionParams : BuildTxEnv(params)

ConversionSpec == ConversionInit /\ [][ConversionNext]_vars

(***************************************************************************)
(* The Starknet counterpart: the entry point simulate builds from the      *)
(* call's parameters and the class hash found at the target.               *)
(***************************************************************************)
\* the Starknet SimulationParameters handed to simulate; gas_limit is an Option<u128>
EntryPointParams ==
    [caller : {Caller},
     to : Targets,
     data : { << >>, << 5 >> },
     entry_point : {"get", "set", "check"},
     overrides : {None},
     gas_limit : {None, Some(0), Some(33), Some(8000000)},
     block_number : {0, MaxBlock}]

\* the class hashes get_class_hash_at may have answered
EntryPointClassHashes == {55, 107}

\* Felt252::from_bytes_be(&calculate_sn_keccak(entry_point)), kept symbolic
EntrypointSelector(entry_point) == << "sn_keccak", entry_point >>

\* the default of the EVM engine put in
SnInitialGasOrEvmDefault(gas_limit) == IF gas_limit.some THEN gas_limit.v ELSE 8000000

\* params.gas_limit.unwrap_or(0)
SnInitialGas(gas_limit) == IF gas_limit.some THEN gas_limit.v ELSE 0

\* ExecutionEntryPoint::new(..) as simulate calls it
ExecutionEntryPointNew(params, class_hash) ==
    [contract_address |-> params.to,
     calldata |-> params.data,
     entry_point_selector |-> EntrypointSelector(params.entry_point),
     caller_address |-> params.caller,
     entry_point_type |-> "External",
     call_type |-> Some("Delegate"),
     class_hash |-> Some(class_hash),
     initial_gas |-> SnInitialGas(params.gas_limit)]

EntryPointInit ==
    /\ sim_params \in EntryPointParams
    /\ tx_env = None
    /\ evm_result = << >> /\ projected = None /\ overflow_checks = TRUE
    /\ vm = "starknet" /\ head = MaxBlock /\ db = << >> /\ sn_state = << >>
    /\ fetches = << >> /\ call = << >>
    /\ built = None /\ run = NoRun /\ ingest = NoIngest /\ engines = << >>

\* Starknet simulate, "Create the simulated call"
BuildEntryPoint(params, class_hash) ==
    /\ sim_params' = params
    /\ tx_env' = Some(ExecutionEntryPointNew(params, class_hash))
    /\ UNCHANGED << projector_vars, overflow_checks, engine_vars, lifecycle_vars >>

EntryPointNext ==
    \E params \in EntryPointParams, class_hash \in EntryPointClassHashes :
        BuildEntryPoint(params, class_hash)

EntryPointSpec == EntryPointInit /\ [][EntryPointNext]_vars

(***************************************************************************)
(* Claims about the engines, checked under Spec.                           *)
(***************************************************************************)
\* what simulate(params) returns and reads on an engine in the given state,
\* the chain standing still
OutcomeOn(database, state, latest, params) ==
    LET r == IF vm = "evm"
             THEN EvmSimulate(database, params, latest, None, None, overflow_checks)
             ELSE SnSimulate(state, params)
    IN  [outcome |-> r.outcome, reads |-> r.reads]

IsIngest ==
    \E vm_storage \in VmStorageChoices, account_updates \in AccountUpdateBatches :
        Ingest(vm_storage, account_updates)

EvmFrame(before, after, rpc) ==
    /\ after.pin = before.pin
    /\ DOMAIN before.accounts \subseteq DOMAIN after.accounts
    /\ \A a \in DOMAIN after.accounts :
          LET account == after.accounts[a]
          IN  IF a \in DOMAIN before.accounts
              THEN /\ account.mocked = before.accounts[a].mocked
                   /\ account.info = before.accounts[a].info
                   /\ DOMAIN before.accounts[a].storage \subseteq DOMAIN account.storage
                   /\ \A index \in DOMAIN account.storage :
                         IF index \in DOMAIN before.accounts[a].storage
                         THEN account.storage[index] = before.accounts[a].storage[index]
                         ELSE \E i \in 1..Len(rpc) :
                                 /\ rpc[i].kind = "storage" /\ rpc[i].address = a
                                 /\ rpc[i].slot = Some(index)
                                 /\ account.storage[index] = RemoteStorage(rpc[i].height, a, index)
              ELSE /\ ~account.mocked
                   /\ \E i \in 1..Len(rpc) :
                         /\ rpc[i].kind = "balance" /\ rpc[i].address = a
                         /\ account.info.balance = RemoteBalance(rpc[i].height, a)
                   /\ \A index \in DOMAIN account.storage :
                         \E i \in 1..Len(rpc) :
                             /\ rpc[i].kind = "storage" /\ rpc[i].address = a
                             /\ rpc[i].slot = Some(index)
                             /\ account.storage[index] = RemoteStorage(rpc[i].height, a, index)

StoredOrZero(database, a, index) ==
    IF a \in DOMAIN database.accounts /\ index \in DOMAIN database.accounts[a].storage
    THEN database.accounts[a].storage[index]
    ELSE 0

\* the engine's own value of a slot for a call at block b, were it fetched at b
UnderlyingAt(b, rpc, a, index) ==
    IF vm = "starknet"
    THEN IF << a, index >> \in DOMAIN sn_state.cache.storage_initial_values
         THEN sn_state.cache.storage_initial_values[<< a, index >>]
         ELSE RemoteStorage(b, a, index)
    ELSE IF \E i \in 1..Len(rpc) : rpc[i].kind = "storage" /\ rpc[i].address = a
                                     /\ rpc[i].slot = Some(index)
         THEN RemoteStorage(b, a, index)
         ELSE StoredOrZero(db, a, index)

\* the engine's own value of a slot as the call's requests were served
UnderlyingServed(b, rpc, a, index) ==
    IF vm = "starknet" THEN UnderlyingAt(b, rpc, a, index)
    ELSE IF \E i \in 1..Len(rpc) : rpc[i].kind = "storage" /\ rpc[i].address = a
                                     /\ rpc[i].slot = Some(index)
         THEN LET i == CHOOSE i \in 1..Len(rpc) :
                          rpc[i].kind = "storage" /\ rpc[i].address = a
                              /\ rpc[i].slot = Some(index)
              IN  RemoteStorage(rpc[i].height, a, index)
         ELSE StoredOrZero(db, a, index)

\* the reads of the last call that the VM made before writing the slot itself
ReadsBeforeWrite == {i \in 1..Len(call.reads) : ~call.reads[i].after_write}

C4_OverridesFirst ==
    call.params.overrides.some =>
        \A i \in ReadsBeforeWrite :
            LET read == call.reads[i]
                overrides == call.params.overrides.v
            IN  (read.address \in DOMAIN overrides /\ read.slot \in DOMAIN overrides[read.address])
                    => read.value = overrides[read.address][read.slot]

C4_Witness ==
    /\ vm = "starknet"
    /\ sn_state = SnNew(<< [contract_address |-> 7, class_hash |-> 55,
                            path |-> Some("token.casm"),
                            storage_overrides |-> Some(<< 7, 31 >> :> 5)] >>).value
    /\ call.params.overrides.some
    /\ call.params.data = "check"
    /\ Len(call.reads) = 2
    /\ call.reads[1].slot = 31 /\ call.reads[1].value = 9

\* C5 as stated: the second of two consecutive identical calls issues no remote
\* read, and no slot or account is fetched twice in a cache lifetime
C5_CacheIdempotence ==
    /\ call.repeat => call.rpc = << >>
    /\ fetches.twice = {}

\* C6 as stated: every remote read carries the pin as its block tag, and all
\* remote reads of one call are served at the same height
C6_SinglePin ==
    \A i \in 1..Len(call.rpc) :
        /\ call.rpc[i].tag = Some(call.pin)
        /\ call.rpc[i].height = call.rpc[1].height

\* C16 as stated: a remote read that fails during a simulation reaches the caller
\* of simulate as StorageError; it makes nothing panic and is asked for once
C16_RemoteFailureIsStorageError ==
    call.failed.some =>
        /\ call.outcome.tag = "Err"
        /\ call.outcome.error.kind = "StorageError"
        /\ \A i \in 1..Len(call.rpc) :
              ~(/\ call.rpc[i].kind = call.failed.v.kind
                /\ call.rpc[i].address = call.failed.v.address
                /\ call.rpc[i].slot = call.failed.v.slot)

(***************************************************************************)
(* Claims about the projector, checked under ProjectorSpec.                *)
(***************************************************************************)
IsSuccess(r) == r.tag = "Ok" /\ r.result.kind = "Success"

\* what the VM hands over: revm caps the refund at a fraction of the gas used
VmProducible(r) == IsSuccess(r) => ~U64Less(r.result.gas_used, r.result.gas_refunded)

\* C7: interpret_evm_result returns Ok if and only if the VM outcome is Success;
\* every other outcome (Revert, Halt, invalid transaction, PrevrandaoNotSet,
\* database error) yields Err, and no VM outcome ends in a panic.
C7_OkIffSuccess ==
    (projected.some /\ VmProducible(evm_result)) =>
        /\ projected.v.tag \in {"Ok", "Err"}
        /\ (projected.v.tag = "Ok") <=> IsSuccess(evm_result)

C7_Witness ==
    /\ projected.some
    /\ evm_result.tag = "Ok" /\ evm_result.result.kind = "Halt"
    /\ projected.v.tag = "Err"

\* C8: for a Success outcome the projected gas_used is vm.gas_used - vm.gas_refunded
\* and the projected result is the VM's output bytes.
C8_GasAccounting ==
    (projected.some /\ IsSuccess(evm_result) /\ VmProducible(evm_result)) =>
        /\ projected.v.tag = "Ok"
        /\ U64IsSmall(projected.v.value.gas_used)
        /\ U64ToNat(projected.v.value.gas_used) =
               U64ToNat(evm_result.result.gas_used) - U64ToNat(evm_result.result.gas_refunded)
        /\ projected.v.value.result = evm_result.result.output.data

C8_Witness ==
    /\ projected.some /\ IsSuccess(evm_result)
    /\ evm_result.result.gas_used = U64Of(100)
    /\ evm_result.result.gas_refunded = U64Of(10)
    /\ evm_result.result.output.data = <<111, 117, 116, 112, 117, 116>>
    /\ projected.v.tag = "Ok"
    /\ projected.v.value.gas_used = <<90, 0, 0, 0>>
    /\ projected.v.value.result = <<111, 117, 116, 112, 117, 116>>

\* C37: gas subtraction does not wrap: for every Success outcome handed to
\* interpret_evm_success the projected gas_used = gas_used - gas_refunded is
\* computed without unsigned 64-bit underflow and satisfies
\* 0 <= projected gas_used <= vm.gas_used; this requires
\* gas_refunded <= gas_used, which the function itself does not check.
C37_GasSubtractionDoesNotWrap ==
    (projected.some /\ IsSuccess(evm_result)) =>
        LET gas_used == evm_result.result.gas_used
            gas_refunded == evm_result.result.gas_refunded
        IN  IF VmProducible(evm_result)
            THEN /\ projected.v.tag = "Ok"
                 /\ ~U64Less(gas_used, projected.v.value.gas_used)
                 /\ U64ToNat(projected.v.value.gas_used) + U64ToNat(gas_refunded)
                        = U64ToNat(gas_used)
            ELSE IF overflow_checks
            THEN projected.v.tag = "Panic"
            ELSE /\ projected.v.tag = "Ok"
                 /\ U64Less(gas_used, projected.v.value.gas_used)
                 /\ projected.v.value.gas_used[4] = LimbBase - 1

C37_Witness ==
    /\ projected.some /\ IsSuccess(evm_result)
    /\ evm_result.result.gas_used = U64Of(10)
    /\ evm_result.result.gas_refunded = U64Of(10)
    /\ projected.v.tag = "Ok"
    /\ projected.v.value.gas_used = U64Of(0)

\* C9: for a Success outcome the key set of state_updates is exactly the set of
\* accounts of the VM's touched-state map.
C9_TouchedEqualsReported ==
    (projected.some /\ projected.v.tag = "Ok") =>
        DOMAIN projected.v.value.state_updates = DOMAIN evm_result.state

C9_Witness ==
    /\ projected.some /\ projected.v.tag = "Ok"
    /\ DOMAIN evm_result.state = {0, 7}
    /\ DOMAIN evm_result.state[0].storage = {}
    /\ DOMAIN evm_result.state[7].storage = {31}
    /\ DOMAIN projected.v.value.state_updates = {0, 7}

\* C10: every slot recorded in state_updates[a].storage was reported by the VM
\* with present_value /= original value, and the recorded value is the present
\* value.
C10_ChangedOnly ==
    (projected.some /\ projected.v.tag = "Ok") =>
        \A a \in DOMAIN projected.v.value.state_updates :
            LET update == projected.v.value.state_updates[a]
            IN  update.storage.some =>
                    \A s \in DOMAIN update.storage.v :
                        /\ s \in DOMAIN evm_result.state[a].storage
                        /\ evm_result.state[a].storage[s].present_value /=
                               evm_result.state[a].storage[s].previous_or_original_value
                        /\ update.storage.v[s] = evm_result.state[a].storage[s].present_value

C10_Witness ==
    /\ projected.some /\ projected.v.tag = "Ok"
    /\ DOMAIN evm_result.state = {0}
    /\ evm_result.state[0].storage =
          (31 :> [previous_or_original_value |-> 4, present_value |-> 5])
          @@ (32 :> [previous_or_original_value |-> 4, present_value |-> 4])
    /\ projected.v.value.state_updates[0].storage = Some(31 :> 5)

\* the slots of an account of the VM's state whose present value differs from
\* the original one
ModifiedSlots(account) ==
    {index \in DOMAIN account.storage :
        account.storage[index].present_value /= account.storage[index].previous_or_original_value}

\* C11: storage delta shape: for every touched account, storage is None if and only
\* if no slot was modified (no storage reported, or every slot unchanged); otherwise
\* it is Some(map) whose keys are exactly the modified slots, never Some(empty map)
C11_StorageDeltaShape ==
    (projected.some /\ projected.v.tag = "Ok") =>
        \A a \in DOMAIN evm_result.state :
            LET update == projected.v.value.state_updates[a]
                modified == ModifiedSlots(evm_result.state[a])
            IN  /\ ~update.storage.some <=> modified = {}
                /\ update.storage.some =>
                      /\ DOMAIN update.storage.v = modified
                      /\ DOMAIN update.storage.v /= {}

C11_Witness ==
    /\ projected.some /\ projected.v.tag = "Ok"
    /\ DOMAIN evm_result.state = {0, 7}
    /\ evm_result.state[0].storage =
          (31 :> [previous_or_original_value |-> 5, present_value |-> 5])
          @@ (32 :> [previous_or_original_value |-> 4, present_value |-> 4])
    /\ projected.v.value.state_updates[0].storage = None
    /\ evm_result.state[7].storage =
          (31 :> [previous_or_original_value |-> 4, present_value |-> 5])
          @@ (32 :> [previous_or_original_value |-> 5, present_value |-> 4])
    /\ projected.v.value.state_updates[7].storage = Some((31 :> 5) @@ (32 :> 4))

\* the lowercase hex rendering of the output bytes of the model, written out
ExpectedHex(bytes) ==
    IF bytes = << >> THEN "" ELSE "6f7574707574"

\* C12: revert projection: a Revert with output b and gas g is projected to
\* Err(TransactionError) with data "0x" followed by the lowercase hex of b and
\* gas_used Some(g)
C12_RevertProjection ==
    (projected.some /\ evm_result.tag = "Ok" /\ evm_result.result.kind = "Revert") =>
        /\ projected.v.tag = "Err"
        /\ projected.v.error.kind = "TransactionError"
        /\ projected.v.error.data = "0x" \o ExpectedHex(evm_result.result.output)
        /\ projected.v.error.gas_used = Some(evm_result.result.gas_used)

C12_Witness ==
    /\ projected.some
    /\ evm_result.tag = "Ok" /\ evm_result.result.kind = "Revert"
    /\ evm_result.result.output = <<111, 117, 116, 112, 117, 116>>
    /\ evm_result.result.gas_used = U64Of(100)
    /\ projected.v = [tag |-> "Err",
                      error |-> [kind |-> "TransactionError", data |-> "0x6f7574707574",
                                 gas_used |-> Some(<<100, 0, 0, 0>>)]]

\* the Debug rendering of the halt reasons of the model, written out
ExpectedDebugHalt(reason) ==
    CASE reason = [variant |-> "OutOfGas", arg |-> Some("BasicOutOfGas")] ->
            "OutOfGas(BasicOutOfGas)"
      [] reason = [variant |-> "OutOfGas", arg |-> Some("MemoryLimit")] ->
            "OutOfGas(MemoryLimit)"
      [] reason = [variant |-> "OpcodeNotFound", arg |-> None] -> "OpcodeNotFound"
      [] reason = [variant |-> "StackOverflow", arg |-> None] -> "StackOverflow"

\* C13: halt projection: a Halt with reason r and gas g is projected to
\* Err(TransactionError) with data the Debug rendering of r and gas_used Some(g)
C13_HaltProjection ==
    (projected.some /\ evm_result.tag = "Ok" /\ evm_result.result.kind = "Halt") =>
        /\ projected.v.tag = "Err"
        /\ projected.v.error.kind = "TransactionError"
        /\ projected.v.error.data = ExpectedDebugHalt(evm_result.result.reason)
        /\ projected.v.error.gas_used = Some(evm_result.result.gas_used)

C13_Witness ==
    /\ projected.some
    /\ evm_result.tag = "Ok" /\ evm_result.result.kind = "Halt"
    /\ evm_result.result.reason = [variant |-> "OutOfGas", arg |-> Some("BasicOutOfGas")]
    /\ evm_result.result.gas_used = U64Of(100)
    /\ projected.v = [tag |-> "Err",
                      error |-> [kind |-> "TransactionError",
                                 data |-> "OutOfGas(BasicOutOfGas)",
                                 gas_used |-> Some(<<100, 0, 0, 0>>)]]

\* C14: pre-flight rejection: an invalid-transaction error t or PrevrandaoNotSet is
\* projected to Err(TransactionError) with data "EVM error: " followed by the Debug
\* rendering of the error and gas_used None
C14_PreflightProjection ==
    (projected.some /\ evm_result.tag = "Err" /\ evm_result.error.kind /= "Database") =>
        /\ projected.v.tag = "Err"
        /\ projected.v.error.kind = "TransactionError"
        /\ projected.v.error.gas_used = None
        /\ projected.v.error.data =
              IF evm_result.error.kind = "PrevrandaoNotSet"
              THEN "EVM error: PrevrandaoNotSet"
              ELSE IF evm_result.error.invalid_tx = "GasMaxFeeGreaterThanPriorityFee"
              THEN "EVM error: GasMaxFeeGreaterThanPriorityFee"
              ELSE "EVM error: CallerGasLimitMoreThanBlock"

C14_Witness ==
    /\ projected.some
    /\ evm_result = [tag |-> "Err",
                     error |-> [kind |-> "Transaction",
                                invalid_tx |-> "GasMaxFeeGreaterThanPriorityFee"]]
    /\ projected.v.error.data = "EVM error: GasMaxFeeGreaterThanPriorityFee"
    /\ ~projected.v.error.gas_used.some

\* C15: transport projection: a database error e is projected to Err(StorageError)
\* with the message "Storage error: " followed by the Debug rendering of e, never
\* to a TransactionError
C15_TransportProjection ==
    (projected.some /\ evm_result.tag = "Err" /\ evm_result.error.kind = "Database") =>
        /\ projected.v.tag = "Err"
        /\ projected.v.error.kind = "StorageError"
        /\ projected.v.error.kind /= "TransactionError"
        /\ projected.v.error.data =
              IF evm_result.error.db_error = "UnsupportedRPC"
              THEN "Storage error: UnsupportedRPC"
              ELSE "Storage error: CustomError(\"boo\")"

C15_Witness ==
    /\ projected.some
    /\ evm_result = [tag |-> "Err",
                     error |-> [kind |-> "Database", db_error |-> "CustomError(\"boo\")"]]
    /\ projected.v = [tag |-> "Err",
                      error |-> [kind |-> "StorageError",
                                 data |-> "Storage error: CustomError(\"boo\")",
                                 gas_used |-> None]]

\* C28: balance is always emitted: for every account of the VM's touched-state
\* map of a Success outcome, the projected StateUpdate has balance equal to
\* Some(the account's balance in the VM state), with or without a storage change;
\* balance is never None.
C28_BalanceAlwaysEmitted ==
    (projected.some /\ IsSuccess(evm_result) /\ VmProducible(evm_result)) =>
        /\ projected.v.tag = "Ok"
        /\ \A a \in DOMAIN evm_result.state :
              /\ a \in DOMAIN projected.v.value.state_updates
              /\ projected.v.value.state_updates[a].balance.some
              /\ projected.v.value.state_updates[a].balance.v =
                     evm_result.state[a].info.balance

C28_Witness ==
    /\ projected.some /\ IsSuccess(evm_result) /\ projected.v.tag = "Ok"
    /\ DOMAIN evm_result.state = {0, 7}
    /\ DOMAIN evm_result.state[0].storage = {}
    /\ evm_result.state[0].info.balance = 2
    /\ evm_result.state[7].storage =
          (31 :> [previous_or_original_value |-> 4, present_value |-> 4])
    /\ evm_result.state[7].info.balance = 1
    /\ projected.v.value.state_updates[0] = [balance |-> Some(2), storage |-> None]
    /\ projected.v.value.state_updates[7] = [balance |-> Some(1), storage |-> None]

(***************************************************************************)
(* Claims about the conversions, checked under ConversionSpec.             *)
(***************************************************************************)
\* the number a U256 holds, for the values whose higher limbs are zero
U256IsSmall(limbs) == limbs[2] = 0 /\ limbs[3] = 0 /\ limbs[4] = 0

U256ToNat(limbs) == limbs[1]

\* caller, calldata, value, block number and timestamp of the environment are
\* those of the parameters
CallFieldsPreserved ==
    /\ tx_env.v.tx.caller = sim_params.caller
    /\ tx_env.v.tx.data = sim_params.data
    /\ tx_env.v.tx.value = sim_params.value
    /\ U256IsSmall(tx_env.v.block.number)
    /\ U256ToNat(tx_env.v.block.number) = sim_params.block_number
    /\ U256IsSmall(tx_env.v.block.timestamp)
    /\ U256ToNat(tx_env.v.block.timestamp) = sim_params.timestamp

\* C17 as stated: for every SimulationParameters the transaction has caller, call
\* target, calldata and value equal to those of the parameters, and block number
\* and timestamp equal to theirs as 256-bit integers
C17_ConversionPreservesCallAnyTarget ==
    tx_env.some =>
        /\ CallFieldsPreserved
        /\ tx_env.v.tx.transact_to = [kind |-> "Call", address |-> sim_params.to]

\* C17: parameter conversion preserves the call: caller, calldata and value are
\* those of the parameters byte for byte, block number and timestamp are theirs
\* as 256-bit integers, and the call target is params.to unless params.to is the
\* zero address, for which the transaction is a creation and has no call target
C17_ConversionPreservesCall ==
    tx_env.some =>
        /\ CallFieldsPreserved
        /\ sim_params.to /= ZeroAddress =>
              tx_env.v.tx.transact_to = [kind |-> "Call", address |-> sim_params.to]
        /\ sim_params.to = ZeroAddress => tx_env.v.tx.transact_to.kind /= "Call"

C17_Witness ==
    /\ tx_env.some
    /\ sim_params.to = ZeroAddress
    /\ sim_params.value = << 0, 0, 1, 2 >>
    /\ sim_params.block_number = MaxBlock
    /\ tx_env.v.block.number = << MaxBlock, 0, 0, 0 >>
    /\ tx_env.v.tx.transact_to.kind = "Create"

\* C18: override conversion is an exact copy: None exactly for None, otherwise the
\* same addresses, for each the same slots with the same values, nothing added,
\* dropped or merged; an unspecified gas_limit converts to None
C18_OverridesCopied ==
    tx_env.some =>
        LET converted == RevmOverrides(sim_params.overrides)
        IN  /\ ~converted.some <=> ~sim_params.overrides.some
            /\ converted.some =>
                  /\ DOMAIN converted.v = DOMAIN sim_params.overrides.v
                  /\ \A address \in DOMAIN converted.v :
                        /\ DOMAIN converted.v[address] = DOMAIN sim_params.overrides.v[address]
                        /\ \A key \in DOMAIN converted.v[address] :
                              converted.v[address][key] = sim_params.overrides.v[address][key]
            /\ tx_env.v.overrides = IF converted.some THEN converted.v ELSE << >>
            /\ ~sim_params.gas_limit.some => ~revm_gas_limit(sim_params).some

C18_Witness ==
    /\ tx_env.some
    /\ sim_params.overrides.some
    /\ DOMAIN sim_params.overrides.v = {ZeroAddress, RouterAddress}
    /\ DOMAIN tx_env.v.overrides[ZeroAddress] = { << 1, 0, 0, 0 >>, << 1, 0, 0, 1 >> }
    /\ tx_env.v.overrides[ZeroAddress][<< 1, 0, 0, 1 >>] = << 0, 0, 0, 22 >>
    /\ DOMAIN tx_env.v.overrides[RouterAddress] = {}
    /\ ~sim_params.gas_limit.some

\* C19: EVM gas limit default: the call executes with tx.gas_limit equal to
\* params.gas_limit when it is specified and to 8,000,000 when it is not,
\* whatever the calls before it were
C19_GasLimitDefault ==
    tx_env.some =>
        tx_env.v.tx.gas_limit =
            IF sim_params.gas_limit.some THEN sim_params.gas_limit.v ELSE 8000000

C19_Witness ==
    /\ tx_env.some
    /\ ~sim_params.gas_limit.some
    /\ tx_env.v.tx.gas_limit = 8000000

\* C20: zero-address target: with params.to the zero address the call is executed
\* as a contract creation with the CREATE2 scheme and salt zero; with any other
\* params.to as a call to that address
C20_ZeroAddressCreates ==
    tx_env.some =>
        tx_env.v.tx.transact_to =
            IF sim_params.to = [i \in 1..20 |-> 0]
            THEN [kind |-> "Create", scheme |-> "Create2", salt |-> << 0, 0, 0, 0 >>]
            ELSE [kind |-> "Call", address |-> sim_params.to]

C20_Witness ==
    /\ tx_env.some
    /\ sim_params.to = ZeroAddress
    /\ tx_env.v.tx.transact_to.kind = "Create"
    /\ tx_env.v.tx.transact_to.scheme = "Create2"
    /\ tx_env.v.tx.transact_to.salt = RU256Zero

(***************************************************************************)
(* Claims about construction and the phases of a call, checked under       *)
(* LifecycleSpec.                                                          *)
(***************************************************************************)
\* the last call entered this phase
Entered(phase) == \E i \in 1..Len(run.trace) : run.trace[i] = phase

\* the last call is over
CallReturned == run.n > 0 /\ run.phase = "Idle"

\* C21: per-call state machine completes (Starknet): a call whose entry-point
\* execution completes successfully reaches Projecting and returns
\* Ok(SimulationResult) carrying the call's output and gas used, leaving the
\* engine Idle.
C21_SuccessfulCallReturnsOk ==
    (vm = "starknet" /\ CallReturned /\ Entered("Executing")
        /\ run.m.status = "running") =>
        /\ Entered("Projecting")
        /\ run.outcome.tag = "Ok"

\* the class hash at the target of the last call is neither in the engine's
\* cache nor known to the node
ClassHashUnresolved ==
    /\ run.params.to \notin DOMAIN sn_state.cache.class_hash_initial_values
    /\ ~RemoteClassHashAt(run.params.block_number, run.params.to).ok

\* C22: Preparing failure (Starknet): when the class hash at params.to cannot be
\* resolved, simulate returns Err(StateError(message)) without building or
\* executing the entry point (the call never enters Executing or Projecting), and
\* the engine state is unchanged.
C22_PreparingFailure ==
    (vm = "starknet" /\ run.n > 0 /\ ClassHashUnresolved) =>
        /\ ~Entered("Executing") /\ ~Entered("Projecting")
        /\ run.m.executed = 0 /\ run.m.reads = << >>
        /\ sn_state = SnNew(built.v.input).value
        /\ run.phase \in {"Preparing", "Idle"}
        /\ run.phase = "Idle" =>
              /\ run.outcome.tag = "Err"
              /\ run.outcome.error.kind = "StateError"

C22_Witness ==
    /\ vm = "starknet" /\ CallReturned /\ ClassHashUnresolved
    /\ run.params.to = 9
    /\ Len(built.v.input) = 1 /\ built.v.input[1].contract_address = 7
    /\ built.v.input[1].path = Some("token.casm")
    /\ run.trace = << "Preparing" >>
    /\ run.outcome = SnError("StateError", "contract class hash not found")
    /\ Len(run.m.rpc) = 1 /\ run.m.rpc[1].kind = "class_hash_at"
    /\ sn_state.cache.storage_initial_values = (<< 7, 31 >> :> 5)

\* the accounts create_engine seeds: 0x00..00 and 0x00..04
PrecompileEnablingAddresses == {0, 4}

\* C23: EVM factory seeding: after create_engine(db, trace) returns, the engine's
\* database contains the accounts 0x00..00 and 0x00..04, each with balance 0,
\* nonce 0, no code and code_hash equal to the hash of empty code, so reading
\* either account never goes to the remote source; create_engine never returns
\* an error.
C23_FactorySeeding ==
    (built.some /\ built.v.factory = "create_engine") =>
        /\ vm = "evm" /\ built.v.result.tag = "Ok"
        /\ \A a \in PrecompileEnablingAddresses :
              /\ a \in DOMAIN db.accounts
              /\ db.accounts[a].info.balance = 0
              /\ db.accounts[a].info.nonce = 0
              /\ db.accounts[a].info.code = None
              /\ db.accounts[a].info.code_hash = << "keccak256", << >> >>
        /\ run.n > 0 =>
              \A i \in 1..Len(run.m.rpc) :
                  run.m.rpc[i].address \notin PrecompileEnablingAddresses

C23_Witness ==
    /\ vm = "evm" /\ CallReturned
    /\ run.params.caller = 0 /\ run.params.to = 4
    /\ run.m.loaded = {0, 4}
    /\ run.m.rpc = << >>
    /\ run.outcome.tag = "Ok"
    /\ DOMAIN db.accounts = {0, 4}

\* the Starknet factory returned an engine
SnBuilt == built.some /\ built.v.factory = "SimulationEngine::new" /\ built.v.result.tag = "Ok"

\* C24: Starknet factory pre-loading: for every ContractOverride record passed
\* to SimulationEngine::new, with or without a class file path, the engine's
\* initial state cache maps the record's contract_address to its class_hash, holds
\* nonce zero for that address and contains every entry of the record's
\* storage_overrides; for a record with a class file the compiled class is
\* retrievable through the record's class hash.
C24_FactoryPreloading ==
    SnBuilt =>
        \A i \in 1..Len(built.v.input) :
            LET record == built.v.input[i]
                cache == sn_state.cache
                seeds == UnwrapOrDefault(record.storage_overrides)
            IN  /\ record.contract_address \in DOMAIN cache.class_hash_initial_values
                /\ cache.class_hash_initial_values[record.contract_address] = record.class_hash
                /\ record.contract_address \in DOMAIN cache.nonce_initial_values
                /\ cache.nonce_initial_values[record.contract_address] = 0
                /\ \A entry \in DOMAIN seeds :
                      /\ entry \in DOMAIN cache.storage_initial_values
                      /\ cache.storage_initial_values[entry] = seeds[entry]
                /\ record.path.some =>
                      /\ record.class_hash \in DOMAIN cache.class_hash_to_compiled_class_hash
                      /\ cache.class_hash_to_compiled_class_hash[record.class_hash]
                             \in sn_state.contract_classes

\* the class files that cannot be loaded: contents that do not parse, no such
\* file, an extension that is neither casm nor json, a class whose hash cannot
\* be computed
UnloadablePaths == {"broken.casm", "missing.casm", "token.sierra", "odd.casm"}

\* C25: factory failure is fatal: if loading any record's class file fails
\* (unreadable file, parse error, or an extension that is neither .casm nor .json)
\* or its class hash cannot be computed, SimulationEngine::new returns
\* Err(InitError(message)) and no engine is constructed, regardless of how many
\* earlier records were loaded successfully.
C25_FactoryFailureIsFatal ==
    (/\ built.some /\ built.v.factory = "SimulationEngine::new"
     /\ \E i \in 1..Len(built.v.input) :
           /\ built.v.input[i].path.some
           /\ built.v.input[i].path.v \in UnloadablePaths) =>
        /\ built.v.result.tag = "Err"
        /\ built.v.result.error.kind = "InitError"
        /\ vm = "none" /\ sn_state = << >>
        /\ run = NoRun

C25_Witness ==
    /\ built.some /\ built.v.factory = "SimulationEngine::new"
    /\ Len(built.v.input) = 2
    /\ built.v.input[1].path = Some("token.casm")
    /\ built.v.input[2].path = Some("token.sierra")
    /\ built.v.result = Err("InitError", "Failed to load contract from path")
    /\ vm = "none" /\ sn_state = << >>

(***************************************************************************)
(* Claims about the EVM database under calls and ingest, checked under     *)
(* IngestSpec.                                                             *)
(***************************************************************************)
\* the largest element of a non-empty set of numbers
MaxOf(S) == CHOOSE x \in S : \A y \in S : y <= x

\* what a whole batch leaves in slot (a, slot): the value of the last record that
\* sets it, zero when a later Creation record replaced the account without it,
\* None when no record of the batch is about the slot
ExpectedAfterBatch(records, a, slot) ==
    LET about == {i \in 1..Len(records) : records[i].address = a}
        creations == {i \in about : records[i].change = "Creation"}
        created == IF creations = {} THEN 0 ELSE MaxOf(creations)
        setting == {i \in about : i >= created /\ slot \in DOMAIN records[i].slots}
    IN  IF setting /= {} THEN Some(records[MaxOf(setting)].slots[slot])
        ELSE IF created > 0 THEN Some(0)
        ELSE None

\* read i of the call in flight is a read of the database (not of a slot the VM
\* wrote before) of a slot the last batch is about
ReadOfBatchSlot(i) ==
    /\ ~run.m.reads[i].after_write
    /\ ExpectedAfterBatch(ingest.returned, run.m.reads[i].address, run.m.reads[i].slot).some

\* read i was served before the last batch was committed, read j after it
ReadsStraddleCommit(i, j) ==
    /\ ReadOfBatchSlot(i) /\ run.pins[i] = ingest.before.pin
    /\ ReadOfBatchSlot(j) /\ run.pins[j] = ingest.block

\* C26 as stated: a simulate call interleaved with update_engine observes either
\* none of the batch with the old pin or all of the batch with the new pin: no
\* call has one read served from before the commit and another from after it.
C26_AtomicForCalls ==
    (vm = "evm" /\ run.n > 0 /\ ingest.submitted /= << >>) =>
        ~ \E i, j \in 1..Len(run.m.reads) : ReadsStraddleCommit(i, j)

\* C26: atomic ingest: the batch and its block header are applied to the database
\* as one commit, and every database read of a simulate call interleaved with
\* update_engine observes either none of the batch with the old pin or all of the
\* batch with the new pin; the reads of one call may lie on both sides of the
\* commit.
C26_AtomicForReads ==
    (vm = "evm" /\ run.n > 0 /\ ingest.submitted /= << >>) =>
        /\ Len(ingest.submitted) = 1
        /\ ingest.after.pin = ingest.block
        /\ ingest.before.pin < ingest.block
        /\ \A i \in 1..Len(run.m.reads) :
              LET read == run.m.reads[i]
                  expected == ExpectedAfterBatch(ingest.returned, read.address, read.slot)
              IN  ReadOfBatchSlot(i) =>
                     /\ run.pins[i] = ingest.block => read.value = expected.v
                     /\ run.pins[i] = ingest.before.pin =>
                           read.value = StoredOrZero(ingest.before, read.address, read.slot)

C26_Witness ==
    /\ vm = "evm" /\ CallReturned /\ run.params.data = "check"
    /\ Len(ingest.returned) = 2
    /\ ingest.returned[1].change = "Update" /\ ingest.returned[1].address = 7
    /\ ingest.returned[1].slots = (31 :> 6) @@ (32 :> 6)
    /\ Len(run.m.reads) = 2
    /\ ReadsStraddleCommit(1, 2)
    /\ run.m.reads[1].slot = 31 /\ run.m.reads[1].value = 5
    /\ run.m.reads[2].slot = 32 /\ run.m.reads[2].value = 6
    /\ run.pins = << MaxBlock, MaxBlock + 1 >>

\* the code hashes of the accounts the database holds
KnownCodeHashes == {db.accounts[a].info.code_hash : a \in DOMAIN db.accounts}

\* C27: code_by_hash is unreachable: invoking code_by_hash on the database panics
\* for every hash and never returns a value, and no simulate call reaches it
\* because account code is always loaded together with the account's basic info.
C27_CodeByHashUnreachable ==
    (vm = "evm" /\ run.n > 0) =>
        /\ run.m.code_by_hash = << >>
        /\ run.m.panic = ""
        /\ \A a \in run.m.loaded :
              db.accounts[a].info.code.some \/ db.accounts[a].info.code_hash = KECCAK_EMPTY
        /\ \A code_hash \in KnownCodeHashes \cup {KECCAK_EMPTY} :
              LET invoked == CodeByHash(RunNow, code_hash)
              IN  /\ invoked.status = "panicked"
                  /\ invoked.panic = "Should not be called. Code is already loaded"

C27_Witness ==
    /\ vm = "evm" /\ CallReturned
    /\ run.params.to = 7
    /\ \E i \in 1..Len(run.m.rpc) : run.m.rpc[i].kind = "code" /\ run.m.rpc[i].address = 7
    /\ db.accounts[7].info.code.some
    /\ db.accounts[7].info.code.v.bytecode = << 96, 7 >>
    /\ db.accounts[7].info.code_hash /= KECCAK_EMPTY
    /\ db.accounts[4].info.code = None
    /\ run.m.code_by_hash = << >>
    /\ run.outcome.tag = "Ok"

\* the accounts of the snapshot handed to the last update_engine call
IngestedSnapshot == IF ingest.vm_storage.some THEN ingest.vm_storage.v ELSE << >>

\* the Creation record update_engine builds from one account of the snapshot
CreationOf(account) ==
    [address |-> account.address, chain |-> account.chain, slots |-> account.slots,
     balance |-> Some(account.balance), code |-> Some(account.code),
     change |-> "Creation"]

\* the records of a sequence, with their multiplicities
RecordsOf(records) ==
    [r \in {records[i] : i \in 1..Len(records)} |->
        Cardinality({i \in 1..Len(records) : records[i] = r})]

\* C29: ingest batch composition: update_engine submits to the database exactly
\* one batch that contains every record of account_updates unchanged plus, for
\* each account of vm_storage, one record of change type Creation carrying that
\* account's address, chain, slots, Some(balance) and Some(code); the vector it
\* returns equals the submitted batch, and a Creation record for an address
\* overwrites any existing entry for that address.
C29_BatchComposition ==
    (ingest.called /\ (ingest.account_updates /= << >> \/ IngestedSnapshot /= << >>)) =>
        /\ Len(ingest.submitted) = 1
        /\ ingest.submitted[1].updates = ingest.returned
        /\ RecordsOf(ingest.returned) =
              RecordsOf(ingest.account_updates
                          \o [i \in 1..Len(IngestedSnapshot) |-> CreationOf(IngestedSnapshot[i])])
        /\ \A i \in 1..Len(IngestedSnapshot) :
              LET account == IngestedSnapshot[i]
                  entry == db.accounts[account.address]
              IN  /\ entry.storage = account.slots
                  /\ entry.info.balance = account.balance
                  /\ entry.info.code.some
                  /\ entry.info.code.v.bytecode = account.code

C29_Witness ==
    /\ ingest.called
    /\ Len(ingest.account_updates) = 2 /\ Len(IngestedSnapshot) = 1
    /\ Len(ingest.returned) = 3
    /\ ingest.returned[3] = CreationOf(ResponseAccount(7, "ethereum", 32 :> 6, 3, << 96, 7 >>))
    /\ 7 \in DOMAIN ingest.before.accounts
    /\ 31 \in DOMAIN ingest.before.accounts[7].storage
    /\ db.accounts[7].storage = (32 :> 6)
    /\ db.accounts[7].info.balance = 3
    /\ db.accounts[1].info.balance = 5

\* C30: empty ingest is a no-op: when account_updates is empty and vm_storage is
\* None or empty, update_engine does not call the database's update at all, so
\* the database contents and the block pin are left unchanged even though a block
\* header was supplied, and it returns an empty vector; in every other case update
\* is called exactly once with Some(block).
C30_EmptyIngestIsNoOp ==
    ingest.called =>
        IF ingest.account_updates = << >> /\ IngestedSnapshot = << >>
        THEN /\ ingest.submitted = << >>
             /\ ingest.returned = << >>
             /\ ingest.after = ingest.before
             /\ ingest.after.pin < ingest.block
        ELSE /\ Len(ingest.submitted) = 1
             /\ ingest.submitted[1].block = Some(ingest.block)
             /\ ingest.submitted[1].updates /= << >>

C30_Witness ==
    /\ ingest.called
    /\ ingest.account_updates = << >> /\ ingest.vm_storage = Some(<< >>)
    /\ ingest.block = MaxBlock + 1
    /\ ingest.before.pin = MaxBlock
    /\ 7 \in DOMAIN ingest.before.accounts
    /\ db.pin = MaxBlock
    /\ ingest.returned = << >>
    /\ run.phase = "Executing"

(***************************************************************************)
(* The remote reader of the EVM database, read by read.                    *)
(***************************************************************************)
\* the positions of the call's requests that open a basic read
BasicReads == {i \in 1..Len(call.rpc) : call.rpc[i].kind = "balance"}

\* the AccountInfo made of what the node holds for a at block h
FetchedAccountInfo(h, a) ==
    [balance |-> RemoteBalance(h, a), nonce |-> RemoteNonce(h, a),
     code_hash |-> Keccak(RemoteCode(h, a)),
     code |-> Some([bytecode |-> RemoteCode(h, a), hash |-> Keccak(RemoteCode(h, a)),
                    state |-> [kind |-> "Analysed", len |-> Len(RemoteCode(h, a))]])]

\* C31: a remote basic(addr) read issues exactly one balance request, one nonce
\* request and one code request for addr as a single joined batch, and when all
\* three succeed it returns Some(AccountInfo) built from those three values, with
\* the code in analyzed form and code_hash derived from the fetched code.
C31_BatchedAccountFetch ==
    (vm = "evm" /\ call.n > 0) =>
        /\ \A i \in BasicReads :
              /\ i + 2 <= Len(call.rpc)
              /\ call.rpc[i + 1] = [call.rpc[i] EXCEPT !.kind = "nonce"]
              /\ call.rpc[i + 2] = [call.rpc[i] EXCEPT !.kind = "code"]
              /\ \A j \in BasicReads : call.rpc[j].address = call.rpc[i].address => j = i
        /\ \A i \in 1..Len(call.rpc) :
              /\ call.rpc[i].kind = "nonce" => (i - 1) \in BasicReads
              /\ call.rpc[i].kind = "code" => (i - 2) \in BasicReads
        /\ ~call.ingested =>
              \A i \in BasicReads :
                  LET a == call.rpc[i].address
                  IN  /\ a \in DOMAIN db.accounts
                      /\ db.accounts[a].info = FetchedAccountInfo(call.rpc[i].height, a)

C31_Witness ==
    /\ vm = "evm" /\ call.n > 0 /\ ~call.ingested
    /\ {call.rpc[i].address : i \in BasicReads} = {Caller, 7}
    /\ db.accounts[7].info.code.v.state.kind = "Analysed"
    /\ db.accounts[7].info.code.v.bytecode = << 96, 7 >>
    /\ db.accounts[7].info.code_hash = Keccak(<< 96, 7 >>)
    /\ db.accounts[Caller].info.code_hash = KECCAK_EMPTY

(***************************************************************************)
(* The Starknet call between execution and return.                         *)
(***************************************************************************)
\* the entry point of the last call ended in an error
ExecutionFailed == Entered("Executing") /\ run.m.status = "aborted"

\* C32: Starknet execution failure: when the entry-point execution returns an
\* error, simulate returns Err(TransactionError(message of that error)), does not
\* enter Projecting, and leaves the engine's state unchanged so that the next
\* simulate call behaves as if the failed call had not happened.
C32_ExecutionFailure ==
    (vm = "starknet" /\ run.n > 0 /\ ExecutionFailed) =>
        /\ ~Entered("Projecting")
        /\ sn_state = SnNew(built.v.input).value
        /\ run.phase \in {"Executing", "Idle"}
        /\ run.phase = "Idle" =>
              /\ run.outcome = [tag |-> "Err",
                                error |-> [kind |-> "TransactionError",
                                           data |-> "execution failed", gas_used |-> None]]
              /\ \A params \in LifecycleParams :
                    SnSimulate(sn_state, params) =
                        SnSimulate(SnNew(built.v.input).value, params)

C32_Witness ==
    /\ vm = "starknet" /\ CallReturned /\ ExecutionFailed
    /\ run.params.data = "spend"
    /\ run.m.writes = << 7, 31 >> :> 0
    /\ run.outcome.tag = "Err"

\* the last call overrides this slot
OverriddenByCall(a, slot) ==
    /\ run.params.overrides.some
    /\ a \in DOMAIN run.params.overrides.v
    /\ slot \in DOMAIN run.params.overrides.v[a]

EngineReturned(e) == engines[e].run.n > 0 /\ engines[e].run.phase = "Idle"

\* C34: engines do not interfere: two simulate calls running on two distinct
\* engines, each with its own database handle but sharing one remote state
\* reader, interleaved in any order at remote-read suspension points, each return
\* the result they would return when run alone; neither observes the other's
\* overrides or transient writes.
C34_EnginesDoNotInterfere ==
    \A e \in EngineIds :
        /\ EngineReturned(e) =>
              /\ engines[e].run.outcome = engines[e].run.alone.outcome
              /\ engines[e].run.m.rpc = engines[e].run.alone.rpc
              /\ engines[e].run.m.reads = engines[e].run.alone.reads
              /\ engines[e].state = EvmDbAfter(engines[e].state, engines[e].run.alone)
        /\ engines[e].run.n > 0 =>
              \A i \in 1..Len(engines[e].run.m.reads) :
                  LET read == engines[e].run.m.reads[i]
                      own == UnwrapOrDefault(engines[e].run.params.overrides)
                  IN  (/\ ~read.after_write
                       /\ ~(read.address \in DOMAIN own /\ read.slot \in DOMAIN own[read.address])
                       /\ ~engines[e].state.accounts[read.address].mocked) =>
                          read.value = RemoteStorage(head, read.address, read.slot)

C34_Witness ==
    /\ EngineReturned(1) /\ EngineReturned(2)
    /\ engines[1].run.overlapped /\ engines[2].run.overlapped
    /\ engines[1].run.params.data = "set"
    /\ engines[2].run.params.data = "check" /\ engines[2].run.params.overrides.some
    /\ ~engines[1].state.accounts[7].mocked /\ ~engines[2].state.accounts[7].mocked
    /\ \E i \in 1..Len(engines[1].run.m.reads) :
          /\ engines[1].run.m.reads[i].slot = 32
          /\ engines[1].run.m.reads[i].value = RemoteStorage(head, 7, 32)
    /\ \E i \in 1..Len(engines[2].run.m.reads) :
          /\ engines[2].run.m.reads[i].slot = 32
          /\ engines[2].run.m.reads[i].value = RemoteStorage(head, 7, 32)

\* the requests of the futures a run resolved, in order
RECURSIVE RequestsOf(_)
RequestsOf(resolved) ==
    IF resolved = << >> THEN << >>
    ELSE Head(resolved).requests \o RequestsOf(Tail(resolved))

\* two engines that differ in nothing but the runtime their readers were given
\* have made the same call from the same database
SameCallOtherRuntime(e, o) ==
    /\ EngineReturned(e) /\ EngineReturned(o)
    /\ engines[e].run.params = engines[o].run.params
    /\ engines[e].run.alone = engines[o].run.alone
    /\ engines[e].runtime.some /\ ~engines[o].runtime.some

C36_SimulateMovesBlock ==
    (call.n > 0 /\ ~call.ingested) =>
        IF vm = "evm"
        THEN db.pin = call.params.block_number - 1
        ELSE sn_state.state_reader.block = BlockValueNumber(call.params.block_number - 1)

(***************************************************************************)
(* The entry point of a Starknet call.                                     *)
(***************************************************************************)
\* C38: Starknet gas limit default: a Starknet simulate call with gas_limit
\* unspecified builds its entry point with initial gas 0, and with
\* gas_limit = Some(g) with initial gas g; unlike the EVM engine it does not
\* substitute 8,000,000.
C38_StarknetGasLimitDefault ==
    tx_env.some =>
        /\ sim_params.gas_limit.some => tx_env.v.initial_gas = sim_params.gas_limit.v
        /\ ~sim_params.gas_limit.some =>
              /\ tx_env.v.initial_gas = 0
              /\ tx_env.v.initial_gas /= GasLimitOrDefault(sim_params.gas_limit)

C38_Witness ==
    /\ tx_env.some
    /\ ~sim_params.gas_limit.some
    /\ tx_env.v.initial_gas = 0
    /\ tx_env.v.contract_address = 7
    /\ tx_env.v.class_hash = Some(107)

====
